---- MODULE Spec2Model ----
(***************************************************************************)
(* Moving Battleships: the rules engine (engine/rules.ts, engine/state.ts, *)
(* engine/data.ts, engine/types.ts) and the phase orchestration of main.ts.*)
(*                                                                         *)
(* SpecPlace, SpecFire, SpecCanMove and SpecMove call the functions of the  *)
(* rules engine with arguments drawn from bounded sets; Spec is the game   *)
(* as main.ts runs it: the handlers of the page, the timers and the        *)
(* computer player.                                                        *)
(***************************************************************************)
EXTENDS Integers, Sequences, FiniteSets, TLC

(***************************************************************************)
(* Bounds of the model.                                                    *)
(***************************************************************************)
\* side of the square board (data.ts sets 10)
BOARD_SIZE == 4
\* how many entries of the SHIPS catalog, in catalog order, a fleet holds
FleetSize == 2
\* cap on the length of the append-only shot log
MaxShots == 2
\* cap on the number of engine calls made on a board
MaxCalls == 1
\* cap on the round number
MaxRound == 2
\* cap on the round number of a game played through the page
MaxGameRound == 4

(***************************************************************************)
(* engine/data.ts                                                          *)
(***************************************************************************)
GUN_DAMAGE == [light |-> 1, medium |-> 2, heavy |-> 3]

SHIPS ==
  << [id |-> "scout", size |-> 2, maxHp |-> 3, move |-> 3,
      guns |-> << [type |-> "light", count |-> 1] >>],
     [id |-> "destroyer", size |-> 3, maxHp |-> 6, move |-> 2,
      guns |-> << [type |-> "light", count |-> 2] >>],
     [id |-> "cruiser", size |-> 3, maxHp |-> 8, move |-> 2,
      guns |-> << [type |-> "medium", count |-> 1] >>],
     [id |-> "battleship", size |-> 4, maxHp |-> 12, move |-> 1,
      guns |-> << [type |-> "medium", count |-> 2] >>],
     [id |-> "dreadnought", size |-> 5, maxHp |-> 18, move |-> 1,
      guns |-> << [type |-> "heavy", count |-> 1] >>] >>

SHIP_BY_ID ==
  [id \in {SHIPS[i].id : i \in 1..Len(SHIPS)} |->
     SHIPS[CHOOSE i \in 1..Len(SHIPS) : SHIPS[i].id = id]]

(***************************************************************************)
(* engine/types.ts                                                         *)
(***************************************************************************)
PlayerId == {0, 1}

Orientation == {"H", "V"}

\* the cells of the board; a Coord is a record of two integers
Coord == [x : 0..(BOARD_SIZE - 1), y : 0..(BOARD_SIZE - 1)]

(***************************************************************************)
(* engine/state.ts                                                         *)
(***************************************************************************)
\* the catalog entries a fleet is made of
Roster == SubSeq(SHIPS, 1, FleetSize)

\* uid = `${owner}-${t.id}`, kept as the pair of its two parts
Uid(owner, typeId) == <<owner, typeId>>

\* player.ships as the array of uids, in catalog order
FleetSeq(owner) == [i \in 1..Len(Roster) |-> Uid(owner, Roster[i].id)]

FleetSet(owner) == {FleetSeq(owner)[i] : i \in 1..Len(Roster)}

AllUids == FleetSet(0) \cup FleetSet(1)

\* state.players[0].ships followed by state.players[1].ships
AllShipSeq == FleetSeq(0) \o FleetSeq(1)

makeShips ==
  [u \in AllUids |->
     [typeId |-> u[2], owner |-> u[1], anchor |-> [x |-> 0, y |-> 0],
      orientation |-> "H", hp |-> SHIP_BY_ID[u[2]].maxHp, hits |-> {},
      placed |-> FALSE, sunk |-> FALSE]]

\* the uid that stands for "no ship" (undefined)
NoShip == <<2, "none">>

\* a uid no fleet holds
GhostUid == <<0, "ghost">>

createPlayer(id) ==
  [misses |-> {}, ephemeralHits |-> {}, ephemeralImpactMarkers |-> << >>,
   destroyedEnemyTypes |-> << >>, destroyedEnemyShipUids |-> << >>]

VARIABLES
  ships,          \* uid -> ShipInstance, the ships of both players
  players,        \* player -> the rest of PlayerState
  firedThisRound, \* player -> set of uids that fired this round
  shotLog,        \* sequence of ShotResult
  round,          \* the round number
  last,           \* the last call observed: its name, arguments and result
  calls,          \* number of engine calls made so far; in Spec, of shells
  ui              \* the module-level state of main.ts and the page it drew

vars == <<ships, players, firedThisRound, shotLog, round, last, calls, ui>>

(***************************************************************************)
(* engine/rules.ts: geometry                                               *)
(***************************************************************************)
key(c) == <<c.x, c.y>>

cloneCoord(c) == [x |-> c.x, y |-> c.y]

inBounds(c) == c.x >= 0 /\ c.y >= 0 /\ c.x < BOARD_SIZE /\ c.y < BOARD_SIZE

\* the array of cells of a ship, segment 1 first
shipCells(ship) ==
  [i \in 1..SHIP_BY_ID[ship.typeId].size |->
     [x |-> ship.anchor.x + (IF ship.orientation = "H" THEN i - 1 ELSE 0),
      y |-> ship.anchor.y + (IF ship.orientation = "V" THEN i - 1 ELSE 0)]]

Range(s) == {s[i] : i \in 1..Len(s)}

\* the loop of occupyMap over the ships: map.set(key(c), ship.uid) for each
\* cell of each placed, unsunk ship but ignoreUid, a later set overwriting
RECURSIVE occupyLoop(_, _, _, _)
occupyLoop(sh, ignoreUid, uids, map) ==
  IF uids = << >> THEN map
  ELSE LET uid == Head(uids)
           keys == {key(c) : c \in Range(shipCells(sh[uid]))}
       IN occupyLoop(sh, ignoreUid, Tail(uids),
            IF ~sh[uid].placed \/ sh[uid].sunk \/ uid = ignoreUid THEN map
            ELSE [k \in DOMAIN map \cup keys |-> IF k \in keys THEN uid ELSE map[k]])

\* an occupyMap in which the cells of a sunk ship stay taken
occupyMapWithWrecks(sh, ignoreUid) ==
  occupyLoop([u \in AllUids |-> [sh[u] EXCEPT !.sunk = FALSE]], ignoreUid,
             AllShipSeq, << >>)

\* Map<key, uid>
occupyMap(sh, ignoreUid) == occupyLoop(sh, ignoreUid, AllShipSeq, << >>)

(***************************************************************************)
(* engine/rules.ts: placement                                              *)
(***************************************************************************)
\* a placement check that takes the cells of both fleets as occupied
canPlaceShipBothFleets(sh, owner, uid, anchor, orientation) ==
  LET copy == [sh[uid] EXCEPT !.anchor = cloneCoord(anchor), !.orientation = orientation]
      anyPlaced == {s \in AllUids : s # uid /\ sh[s].placed /\ ~sh[s].sunk}
      occ == {key(c) : c \in UNION {Range(shipCells(sh[s])) : s \in anyPlaced}}
  IN \A c \in Range(shipCells(copy)) : ~(~inBounds(c) \/ key(c) \in occ)

canPlaceShip(sh, owner, uid, anchor, orientation) ==
  LET copy == [sh[uid] EXCEPT !.anchor = cloneCoord(anchor), !.orientation = orientation]
      ownPlaced == {s \in FleetSet(owner) : s # uid /\ sh[s].placed /\ ~sh[s].sunk}
      occ == {key(c) : c \in UNION {Range(shipCells(sh[s])) : s \in ownPlaced}}
  IN \A c \in Range(shipCells(copy)) : ~(~inBounds(c) \/ key(c) \in occ)

\* the result of placeShip: the value returned and the ships after the call
placeShip(sh, owner, shipUid, anchor, orientation) ==
  IF shipUid \notin FleetSet(owner) \/ sh[shipUid].sunk
    THEN [ret |-> FALSE, ships |-> sh]
  ELSE IF ~canPlaceShip(sh, owner, shipUid, anchor, orientation)
    THEN [ret |-> FALSE, ships |-> sh]
  ELSE [ret |-> TRUE,
        ships |-> [sh EXCEPT ![shipUid].anchor = cloneCoord(anchor),
                             ![shipUid].orientation = orientation,
                             ![shipUid].placed = TRUE]]

allShipsPlaced(sh, owner) == \A s \in FleetSet(owner) : sh[s].placed

(***************************************************************************)
(* engine/rules.ts: firing                                                 *)
(***************************************************************************)
\* the first ship of the fleet, in array order, that is placed, unsunk and
\* covers target; NoShip for undefined
\* a shipAt that finds sunk ships too
shipAtWreck(sh, owner, target) ==
  LET at(i) == LET s == sh[FleetSeq(owner)[i]]
               IN s.placed
                  /\ \E c \in Range(shipCells(s)) : c.x = target.x /\ c.y = target.y
  IN IF \E i \in 1..Len(FleetSeq(owner)) : at(i)
       THEN FleetSeq(owner)[CHOOSE i \in 1..Len(FleetSeq(owner)) :
                              at(i) /\ \A j \in 1..(i - 1) : ~at(j)]
       ELSE NoShip

shipAt(sh, owner, target) ==
  LET at(i) == LET s == sh[FleetSeq(owner)[i]]
               IN s.placed /\ ~s.sunk
                  /\ \E c \in Range(shipCells(s)) : c.x = target.x /\ c.y = target.y
  IN IF \E i \in 1..Len(FleetSeq(owner)) : at(i)
       THEN FleetSeq(owner)[CHOOSE i \in 1..Len(FleetSeq(owner)) :
                              at(i) /\ \A j \in 1..(i - 1) : ~at(j)]
       ELSE NoShip

RECURSIVE gunsReduce(_, _)
gunsReduce(guns, acc) ==
  IF guns = << >> THEN acc
  ELSE gunsReduce(Tail(guns), acc + Head(guns).count * GUN_DAMAGE[Head(guns).type])

shipDamage(ship) == gunsReduce(SHIP_BY_ID[ship.typeId].guns, 0)

Max(a, b) == IF a >= b THEN a ELSE b

\* the result of resolveShot: the value returned (ret = NoShot for null) and
\* the state after the call
NoShot == [attacker |-> 2, defender |-> 2, shipUid |-> NoShip,
           target |-> [x |-> 0, y |-> 0], hit |-> FALSE, damage |-> 0,
           hitShipUid |-> NoShip, sunkShipUid |-> NoShip]

\* a resolveShot that does not look at the fired set
resolveShotRefire(sh, pl, fired, log, attackerId, shipUid, target) ==
  LET defenderId == IF attackerId = 0 THEN 1 ELSE 0
      found == shipUid \in FleetSet(attackerId)
                 /\ ~sh[shipUid].sunk /\ sh[shipUid].placed
  IN IF ~found \/ ~inBounds(target)
       THEN [ret |-> NoShot, ships |-> sh, players |-> pl,
             firedThisRound |-> fired, shotLog |-> log]
     ELSE
       LET hitShip == shipAt(sh, defenderId, target)
           damage == shipDamage(sh[shipUid])
           isHit == hitShip # NoShip
           hp2 == IF isHit THEN Max(0, sh[hitShip].hp - damage) ELSE 0
           sinks == isHit /\ hp2 = 0
           result == [attacker |-> attackerId, defender |-> defenderId,
                      shipUid |-> shipUid, target |-> cloneCoord(target),
                      hit |-> isHit, damage |-> damage,
                      hitShipUid |-> IF isHit THEN hitShip ELSE NoShip,
                      sunkShipUid |-> IF sinks THEN hitShip ELSE NoShip]
           sh2 == IF isHit
                    THEN [sh EXCEPT ![hitShip].hp = hp2,
                                    ![hitShip].sunk = IF sinks THEN TRUE ELSE @]
                    ELSE sh
           pl2 == IF sinks
                    THEN [pl EXCEPT
                            ![attackerId].destroyedEnemyTypes =
                               Append(@, sh[hitShip].typeId),
                            ![attackerId].destroyedEnemyShipUids =
                               IF hitShip \in Range(@) THEN @ ELSE Append(@, hitShip)]
                    ELSE pl
       IN [ret |-> result, ships |-> sh2, players |-> pl2,
           firedThisRound |-> [fired EXCEPT ![attackerId] = @ \cup {shipUid}],
           shotLog |-> Append(log, result)]

resolveShot(sh, pl, fired, log, attackerId, shipUid, target) ==
  LET defenderId == IF attackerId = 0 THEN 1 ELSE 0
      found == shipUid \in FleetSet(attackerId)
                 /\ ~sh[shipUid].sunk /\ sh[shipUid].placed
  IN IF ~found \/ ~inBounds(target) \/ shipUid \in fired[attackerId]
       THEN [ret |-> NoShot, ships |-> sh, players |-> pl,
             firedThisRound |-> fired, shotLog |-> log]
     ELSE
       LET hitShip == shipAt(sh, defenderId, target)
           damage == shipDamage(sh[shipUid])
           isHit == hitShip # NoShip
           hp2 == IF isHit THEN Max(0, sh[hitShip].hp - damage) ELSE 0
           sinks == isHit /\ hp2 = 0
           result == [attacker |-> attackerId, defender |-> defenderId,
                      shipUid |-> shipUid, target |-> cloneCoord(target),
                      hit |-> isHit, damage |-> damage,
                      hitShipUid |-> IF isHit THEN hitShip ELSE NoShip,
                      sunkShipUid |-> IF sinks THEN hitShip ELSE NoShip]
           sh2 == IF isHit
                    THEN [sh EXCEPT ![hitShip].hp = hp2,
                                    ![hitShip].sunk = IF sinks THEN TRUE ELSE @]
                    ELSE sh
           pl2 == IF sinks
                    THEN [pl EXCEPT
                            ![attackerId].destroyedEnemyTypes =
                               Append(@, sh[hitShip].typeId),
                            ![attackerId].destroyedEnemyShipUids =
                               IF hitShip \in Range(@) THEN @ ELSE Append(@, hitShip)]
                    ELSE pl
       IN [ret |-> result, ships |-> sh2, players |-> pl2,
           firedThisRound |-> [fired EXCEPT ![attackerId] = @ \cup {shipUid}],
           shotLog |-> Append(log, result)]

\* a reset that clears the first player's fired set only
resetFiringRoundFirstOnly(fired) == [fired EXCEPT ![0] = {}]

resetFiringRound(fired) == [p \in PlayerId |-> {}]

canShipFire(sh, fired, playerId, shipUid) ==
  IF shipUid \notin FleetSet(playerId) \/ sh[shipUid].sunk \/ ~sh[shipUid].placed
    THEN FALSE
  ELSE shipUid \notin fired[playerId]

hasUnfiredShips(sh, fired, playerId) ==
  \E s \in FleetSet(playerId) : canShipFire(sh, fired, playerId, s)

\* NoPlayer for null
NoPlayer == 2

\* a nextFiringPlayer that asks the opponent only
nextFiringPlayerOpponentOnly(sh, fired, current) ==
  IF hasUnfiredShips(sh, fired, IF current = 0 THEN 1 ELSE 0)
    THEN IF current = 0 THEN 1 ELSE 0
  ELSE NoPlayer

\* a nextFiringPlayer that asks current before the opponent
nextFiringPlayerCurrentFirst(sh, fired, current) ==
  LET other == IF current = 0 THEN 1 ELSE 0
  IN IF hasUnfiredShips(sh, fired, current) THEN current
     ELSE IF hasUnfiredShips(sh, fired, other) THEN other
     ELSE NoPlayer

\* a nextFiringPlayer that always hands the turn to the opponent
nextFiringPlayerOpponentAlways(sh, fired, current) == IF current = 0 THEN 1 ELSE 0

nextFiringPlayer(sh, fired, current) ==
  LET other == IF current = 0 THEN 1 ELSE 0
  IN IF hasUnfiredShips(sh, fired, other) THEN other
     ELSE IF hasUnfiredShips(sh, fired, current) THEN current
     ELSE NoPlayer

(***************************************************************************)
(* engine/rules.ts: movement                                               *)
(***************************************************************************)
\* const v = ...; F(v): the value is computed once
With(v, F(_)) == F(v)

shipMoveRange(ship) == SHIP_BY_ID[ship.typeId].move

Abs(n) == IF n < 0 THEN -n ELSE n

Sign(n) == IF n > 0 THEN 1 ELSE IF n < 0 THEN -1 ELSE 0

\* a distance that counts a diagonal step as one
manhattanDiagonal(a, b) == Max(Abs(a.x - b.x), Abs(a.y - b.y))

manhattan(a, b) == Abs(a.x - b.x) + Abs(a.y - b.y)

translateShip(ship, to) == [ship EXCEPT !.anchor = cloneCoord(to)]

\* a footprint check that does not look at the bounds of the board
footprintFreeAnywhere(ship, occ) ==
  \A c \in Range(shipCells(ship)) : key(c) \notin DOMAIN occ

\* one footprint check of the walk: no cell out of bounds or in occ
footprintFree(ship, occ) ==
  \A c \in Range(shipCells(ship)) : ~(~inBounds(c) \/ key(c) \in DOMAIN occ)

\* a walk along x that jumps to the destination column unchecked
walkXUnchecked(ship, occ, cursor, to) ==
  [blocked |-> FALSE, cursor |-> [cursor EXCEPT !.x = to.x]]

\* the first while loop: step cursor.x towards to.x, checking after each step;
\* yields the cursor reached, or blocked
RECURSIVE walkX(_, _, _, _)
walkX(ship, occ, cursor, to) ==
  IF cursor.x = to.x THEN [blocked |-> FALSE, cursor |-> cursor]
  ELSE LET next == [cursor EXCEPT !.x = cursor.x + Sign(to.x - cursor.x)]
       IN IF ~footprintFree([ship EXCEPT !.anchor = next], occ)
            THEN [blocked |-> TRUE, cursor |-> next]
            ELSE walkX(ship, occ, next, to)

\* the second while loop, along y
RECURSIVE walkY(_, _, _, _)
walkY(ship, occ, cursor, to) ==
  IF cursor.y = to.y THEN [blocked |-> FALSE, cursor |-> cursor]
  ELSE LET next == [cursor EXCEPT !.y = cursor.y + Sign(to.y - cursor.y)]
       IN IF ~footprintFree([ship EXCEPT !.anchor = next], occ)
            THEN [blocked |-> TRUE, cursor |-> next]
            ELSE walkY(ship, occ, next, to)

\* canMoveShip after the first while loop, wx its outcome
canWalk(ship, occ, order, wx) ==
  IF wx.blocked THEN FALSE
  ELSE With(walkY(ship, occ, wx.cursor, order.to),
            LAMBDA wy :
              IF wy.blocked THEN FALSE
              ELSE footprintFree(
                     translateShip([ship EXCEPT !.orientation = order.orientation],
                                   order.to), occ))

\* canMoveShip from the range check on; occ is occupyMap(state, ship.uid)
canReach(ship, occ, order) ==
  IF manhattan(ship.anchor, order.to) > shipMoveRange(ship) THEN FALSE
  ELSE canWalk(ship, occ, order, walkX(ship, occ, cloneCoord(ship.anchor), order.to))

\* a canMoveShip that lets every skip order pass
canMoveShipSkipFirst(sh, playerId, order) ==
  IF order.skip THEN TRUE
  ELSE IF ~(order.shipUid \in FleetSet(playerId)
            /\ sh[order.shipUid].placed /\ ~sh[order.shipUid].sunk) THEN FALSE
  ELSE canReach(sh[order.shipUid], occupyMap(sh, order.shipUid), order)

canMoveShip(sh, playerId, order) ==
  IF ~(order.shipUid \in FleetSet(playerId)
       /\ sh[order.shipUid].placed /\ ~sh[order.shipUid].sunk) THEN FALSE
  ELSE IF order.skip THEN TRUE
  ELSE canReach(sh[order.shipUid], occupyMap(sh, order.shipUid), order)

\* an order that is dropped without a word
rejectOrderSilently(acc, uid) == acc

\* rejected.push(uid) in the loop over the orders
rejectOrder(acc, uid) == [acc EXCEPT !.rejected = Append(@, uid)]

\* the loop over [...p1Orders, ...p2Orders]; acc holds proposals (uid -> the
\* proposed ship; same = it is the ship object itself), applied and rejected
RECURSIVE ordersLoop(_, _, _)
ordersLoop(sh, all, acc) ==
  IF all = << >> THEN acc
  ELSE
    LET order == Head(all)
        uid == order.shipUid
        pid == IF uid[1] = 0 THEN 0 ELSE 1
        found == uid \in FleetSet(pid)
        acc2 ==
          IF ~found \/ sh[uid].sunk \/ ~sh[uid].placed
            THEN rejectOrder(acc, uid)
          ELSE IF order.skip
            THEN [acc EXCEPT
                    !.proposals = [u \in DOMAIN @ \cup {uid} |->
                                     IF u = uid
                                       THEN [anchor |-> sh[uid].anchor,
                                             orientation |-> sh[uid].orientation,
                                             same |-> TRUE]
                                       ELSE @[u]],
                    !.applied = Append(@, uid)]
          ELSE IF ~canMoveShip(sh, pid, order)
            THEN rejectOrder(acc, uid)
          ELSE [acc EXCEPT
                  !.proposals = [u \in DOMAIN @ \cup {uid} |->
                                   IF u = uid
                                     THEN [anchor |-> cloneCoord(order.to),
                                           orientation |-> order.orientation,
                                           same |-> FALSE]
                                     ELSE @[u]],
                  !.applied = Append(@, uid)]
    IN ordersLoop(sh, Tail(all), acc2)

\* the ship a uid stands for in the end-position pass: proposals.get(uid) ?? ship
proposalOf(sh, proposals, uid) ==
  IF uid \in DOMAIN proposals
    THEN [sh[uid] EXCEPT !.anchor = proposals[uid].anchor,
                         !.orientation = proposals[uid].orientation]
    ELSE sh[uid]

\* the (uid, cell) pairs the end-position pass visits, in its order
RECURSIVE endCells(_, _, _)
endCells(sh, proposals, uids) ==
  IF uids = << >> THEN << >>
  ELSE LET uid == Head(uids)
           cells == shipCells(proposalOf(sh, proposals, uid))
       IN (IF ~sh[uid].placed \/ sh[uid].sunk THEN << >>
           ELSE [i \in 1..Len(cells) |-> [uid |-> uid, c |-> cells[i]]])
          \o endCells(sh, proposals, Tail(uids))

\* an end-position pass that rejects only the ship that comes second
RECURSIVE endOccLoopSecondOnly(_, _)
endOccLoopSecondOnly(visits, acc) ==
  IF visits = << >> THEN acc
  ELSE
    LET v == Head(visits)
        k == key(v.c)
        acc2 ==
          IF k \in DOMAIN acc.endOcc /\ acc.endOcc[k] # v.uid
            THEN [acc EXCEPT !.rejected =
                    IF v.uid \in Range(@) THEN @ ELSE Append(@, v.uid)]
            ELSE [acc EXCEPT
                    !.endOcc = [kk \in DOMAIN @ \cup {k} |->
                                  IF kk = k THEN v.uid ELSE @[kk]]]
    IN endOccLoopSecondOnly(Tail(visits), acc2)

\* the end-position pass; acc holds endOcc (key -> uid) and rejected
RECURSIVE endOccLoop(_, _)
endOccLoop(visits, acc) ==
  IF visits = << >> THEN acc
  ELSE
    LET v == Head(visits)
        k == key(v.c)
        acc2 ==
          IF k \in DOMAIN acc.endOcc /\ acc.endOcc[k] # v.uid
            THEN LET existing == acc.endOcc[k]
                     r1 == IF existing \in Range(acc.rejected) THEN acc.rejected
                           ELSE Append(acc.rejected, existing)
                     r2 == IF v.uid \in Range(r1) THEN r1 ELSE Append(r1, v.uid)
                 IN [acc EXCEPT !.rejected = r2]
            ELSE [acc EXCEPT
                    !.endOcc = [kk \in DOMAIN @ \cup {k} |->
                                  IF kk = k THEN v.uid ELSE @[kk]]]
    IN endOccLoop(Tail(visits), acc2)

\* [...new Set(list)]: the first occurrence of each element, in order
RECURSIVE dedupe(_)
dedupe(list) ==
  IF list = << >> THEN << >>
  ELSE LET init == dedupe(SubSeq(list, 1, Len(list) - 1))
           x == list[Len(list)]
       IN IF x \in Range(init) THEN init ELSE Append(init, x)

\* an apply pass that puts a new ship, without damage, at the proposed place
moveEndRebuilt(sh, a1, rejected) ==
  [applied |-> dedupe(a1.applied), rejected |-> dedupe(rejected),
   ships |-> [u \in AllUids |->
                IF u \in Range(rejected) THEN sh[u]
                ELSE IF u \notin DOMAIN a1.proposals \/ a1.proposals[u].same THEN sh[u]
                ELSE [sh[u] EXCEPT !.anchor = cloneCoord(a1.proposals[u].anchor),
                                   !.orientation = a1.proposals[u].orientation,
                                   !.hits = {}]]]

\* an apply pass that moves the rejected ships too
moveEndRejectedToo(sh, a1, rejected) ==
  [applied |-> dedupe(a1.applied), rejected |-> dedupe(rejected),
   ships |-> [u \in AllUids |->
                IF u \notin DOMAIN a1.proposals \/ a1.proposals[u].same THEN sh[u]
                ELSE [sh[u] EXCEPT !.anchor = cloneCoord(a1.proposals[u].anchor),
                                   !.orientation = a1.proposals[u].orientation]]]

\* the apply pass and the value returned; a1 is what the loop over the orders
\* left, rejected the list after the end-position pass
moveEnd(sh, a1, rejected) ==
  [applied |-> dedupe(a1.applied), rejected |-> dedupe(rejected),
   ships |-> [u \in AllUids |->
                IF u \in Range(rejected) THEN sh[u]
                ELSE IF u \notin DOMAIN a1.proposals \/ a1.proposals[u].same THEN sh[u]
                ELSE [sh[u] EXCEPT !.anchor = cloneCoord(a1.proposals[u].anchor),
                                   !.orientation = a1.proposals[u].orientation]]]

\* an end-position pass in which the ship that was ordered first keeps the cell
movePassFirstCome(sh, a1) ==
  moveEnd(sh, a1,
          endOccLoopSecondOnly(
            endCells(sh, a1.proposals,
                     a1.applied \o SelectSeq(AllShipSeq, LAMBDA u : u \notin Range(a1.applied))),
            [endOcc |-> << >>, rejected |-> a1.rejected]).rejected)

\* a resolveMovement without the end-position pass
movePassUnchecked(sh, a1) == moveEnd(sh, a1, a1.rejected)

\* resolveMovement after the loop over the orders
movePass(sh, a1) ==
  moveEnd(sh, a1, endOccLoop(endCells(sh, a1.proposals, AllShipSeq),
                             [endOcc |-> << >>, rejected |-> a1.rejected]).rejected)

\* the result of resolveMovement: the value returned and the ships after it
resolveMovement(sh, p1Orders, p2Orders) ==
  movePass(sh, ordersLoop(sh, p1Orders \o p2Orders,
                          [proposals |-> << >>, applied |-> << >>, rejected |-> << >>]))

\* a clearEphemeral that leaves the impact markers
clearEphemeralHits(pl) ==
  [p \in PlayerId |-> [pl[p] EXCEPT !.ephemeralHits = {}]]

\* clearEphemeral, on the players
clearEphemeral(pl) ==
  [p \in PlayerId |-> [pl[p] EXCEPT !.ephemeralHits = {},
                                    !.ephemeralImpactMarkers = << >>]]

\* a start of a round that keeps the misses
newRoundKeepingMisses(pl) == clearEphemeral(pl)

\* resolveMovementPhase (main.ts): clearEphemeral(game), then the misses of
\* both players are cleared
newRound(pl) ==
  [p \in PlayerId |-> [clearEphemeral(pl)[p] EXCEPT !.misses = {}]]

\* a hasWinner that finds nobody
hasWinnerNobody(sh) == NoPlayer

\* a hasWinner that returns the player whose fleet is sunk
hasWinnerSunkSide(sh) ==
  LET alive0 == \E s \in FleetSet(0) : ~sh[s].sunk
      alive1 == \E s \in FleetSet(1) : ~sh[s].sunk
  IN IF ~alive0 /\ alive1 THEN 0
     ELSE IF ~alive1 /\ alive0 THEN 1
     ELSE NoPlayer

hasWinner(sh) ==
  LET alive0 == \E s \in FleetSet(0) : ~sh[s].sunk
      alive1 == \E s \in FleetSet(1) : ~sh[s].sunk
  IN IF ~alive0 /\ alive1 THEN 1
     ELSE IF ~alive1 /\ alive0 THEN 0
     ELSE NoPlayer

(***************************************************************************)
(* engine/rng.ts: SeededRng. The 32-bit seed is kept as <<high, low>>, its *)
(* two 16-bit halves, so that no product leaves the integers of the tool.  *)
(***************************************************************************)
Half == 65536

\* seed = (1664525 * seed + 1013904223) >>> 0
rngNext(seed) ==
  LET low == seed[2] * 26125 + 62303
  IN << (seed[1] * 26125 + seed[2] * 25 + (low \div Half) + 15470) % Half,
        low % Half >>

\* next() > 0.5, on the seed that next() has just set
overHalf(seed) == seed[1] > 32768 \/ (seed[1] = 32768 /\ seed[2] > 0)

\* a scaling that rounds to the nearest integer
scaledRounded(seed, maxExclusive) ==
  (2 * (seed[1] * maxExclusive + ((seed[2] * maxExclusive) \div Half)) + Half) \div (2 * Half)

\* Math.floor(next() * maxExclusive), on the seed that next() has just set
scaled(seed, maxExclusive) ==
  (seed[1] * maxExclusive + ((seed[2] * maxExclusive) \div Half)) \div Half

\* rng.int: the value drawn and the seed after the draw
rngInt(seed, maxExclusive) ==
  [v |-> scaled(rngNext(seed), maxExclusive), seed |-> rngNext(seed)]

\* rng.pick: items[this.int(items.length)], and the seed after the draw
rngPick(seed, items) ==
  [v |-> items[rngInt(seed, Len(items)).v + 1], seed |-> rngInt(seed, Len(items)).seed]

(***************************************************************************)
(* engine/rules.ts: the helpers of the computer player                     *)
(***************************************************************************)
\* one pass of the while loop of randomFleetPlacement: s1 is the seed after
\* the draw of the orientation, x and y the draws of the anchor, r what
\* placeShip returned
placeDrawn(sh, uid, guard, seed, r) ==
  IF r.ret THEN [ships |-> r.ships, seed |-> seed, guard |-> guard + 1, placed |-> TRUE]
  ELSE [ships |-> sh, seed |-> seed, guard |-> guard + 1, placed |-> FALSE]

\* a pass that puts the ship where it was drawn, legal or not
placeDrawUnchecked(sh, uid, guard, s1, x, y) ==
  [ships |-> [sh EXCEPT ![uid].anchor = [x |-> x.v, y |-> y.v],
                        ![uid].orientation = IF overHalf(s1) THEN "H" ELSE "V",
                        ![uid].placed = TRUE],
   seed |-> y.seed, guard |-> guard + 1, placed |-> TRUE]

placeDraw(sh, uid, guard, s1, x, y) ==
  placeDrawn(sh, uid, guard, y.seed,
             placeShip(sh, uid[1], uid, [x |-> x.v, y |-> y.v],
                       IF overHalf(s1) THEN "H" ELSE "V"))

\* the three draws of a pass: rng.next(), rng.int(BOARD_SIZE), rng.int(BOARD_SIZE)
passDraws(seed) ==
  [s1 |-> rngNext(seed),
   x |-> rngInt(rngNext(seed), BOARD_SIZE),
   y |-> rngInt(rngInt(rngNext(seed), BOARD_SIZE).seed, BOARD_SIZE)]

\* the passes of the while loop from guard up to stop, the first half of them
\* and then, if the ship is still not placed, the rest
RECURSIVE placeSpan(_, _, _, _, _)
placeResume(sh, uid, r, stop) ==
  IF r.placed THEN r ELSE placeSpan(sh, uid, r.seed, r.guard, stop)

placeSpan(sh, uid, seed, guard, stop) ==
  IF guard >= stop THEN [ships |-> sh, seed |-> seed, guard |-> guard, placed |-> FALSE]
  ELSE IF stop - guard = 1
    THEN CHOOSE out \in {placeDraw(sh, uid, guard, d.s1, d.x, d.y) :
                           d \in {passDraws(seed)}} : TRUE
  ELSE CHOOSE out \in {placeResume(sh, uid, r, stop) :
                         r \in {placeSpan(sh, uid, seed, guard,
                                          guard + ((stop - guard) \div 2))}} : TRUE

\* the while loop of randomFleetPlacement for one ship: while (!placed &&
\* guard < 500)
placeAtRandom(sh, uid, seed, guard) == placeSpan(sh, uid, seed, guard, 500)

\* the for loop of randomFleetPlacement over the catalog; tried lists, ship by
\* ship, the value of guard and of placed when the while loop ended
RECURSIVE fleetLoop(_, _, _)
fleetNext(uid, r, rest) ==
  [rest EXCEPT !.tried = << [uid |-> uid, guard |-> r.guard, placed |-> r.placed] >> \o @]

fleetLoop(sh, uids, seed) ==
  IF uids = << >> THEN [ships |-> sh, seed |-> seed, tried |-> << >>]
  ELSE With(placeAtRandom(sh, Head(uids), seed, 0),
            LAMBDA r : fleetNext(Head(uids), r, fleetLoop(r.ships, Tail(uids), r.seed)))

randomFleetPlacement(sh, owner, seed) == fleetLoop(sh, FleetSeq(owner), seed)

\* the target drawn: rng.int(BOARD_SIZE) twice
drawTarget(x, y) == [target |-> [x |-> x.v, y |-> y.v], seed |-> y.seed]

drawCell(seed) ==
  With(rngInt(seed, BOARD_SIZE), LAMBDA x : drawTarget(x, rngInt(x.seed, BOARD_SIZE)))

\* the while loop of randomLegalShot: draw again while the target is a
\* recorded miss, at most 100 times
RECURSIVE redraw(_, _, _, _)
redraw(misses, target, seed, guard) ==
  IF ~(key(target) \in misses /\ guard < 100) THEN [target |-> target, seed |-> seed]
  ELSE With(drawCell(seed), LAMBDA d : redraw(misses, d.target, d.seed, guard + 1))

\* randomLegalShot once the ship is drawn: i is the draw, d the first target
shotDrawn(misses, liveShips, i, d) ==
  With(redraw(misses, d.target, d.seed, 0),
       LAMBDA t : [shipUid |-> liveShips[i.v + 1], target |-> t.target, seed |-> t.seed])

shotOf(misses, liveShips, seed) ==
  IF liveShips = << >>
    THEN [shipUid |-> NoShip, target |-> [x |-> 0, y |-> 0], seed |-> seed]
  ELSE With(rngInt(seed, Len(liveShips)),
            LAMBDA i : shotDrawn(misses, liveShips, i, drawCell(i.seed)))

\* shipUid = NoShip for null
randomLegalShot(sh, pl, fired, attackerId, seed) ==
  shotOf(pl[attackerId].misses,
         SelectSeq(FleetSeq(attackerId), LAMBDA u : canShipFire(sh, fired, attackerId, u)),
         seed)

\* the orders of the grid that are in range, after the skip order
nearOrders(ship, uid, near) ==
  << [shipUid |-> uid, to |-> cloneCoord(ship.anchor),
      orientation |-> ship.orientation, skip |-> TRUE] >>
  \o [n \in 1..Len(near) |->
       [shipUid |-> uid, to |-> near[n].to, orientation |-> near[n].orientation,
        skip |-> FALSE]]

\* the nested loops over dx, dy and the orientation; side = 2 * range + 1
gridOrders(ship, uid, range, side) ==
  SelectSeq([n \in 1..(side * side * 2) |->
               [to |-> [x |-> ship.anchor.x + ((n - 1) \div (2 * side)) - range,
                        y |-> ship.anchor.y + (((n - 1) \div 2) % side) - range],
                orientation |-> IF (n - 1) % 2 = 0 THEN "H" ELSE "V",
                reach |-> Abs(((n - 1) \div (2 * side)) - range)
                          + Abs((((n - 1) \div 2) % side) - range)]],
            LAMBDA c : c.reach <= range)

\* the candidate orders of one ship, in the order randomMovePlan builds them
candidates(ship, uid) ==
  With(shipMoveRange(ship),
       LAMBDA range : nearOrders(ship, uid, gridOrders(ship, uid, range, 2 * range + 1)))

\* the for loop of randomMovePlan over the ships of the player
RECURSIVE planLoop(_, _, _, _, _)
\* a planPick that draws among all the candidates, legal or not
planPickUnfiltered(sh, playerId, uids, seed, orders, legal) ==
  With(rngPick(seed, candidates(sh[Head(uids)], Head(uids))),
       LAMBDA i : planLoop(sh, playerId, Tail(uids), i.seed, Append(orders, i.v)))

\* legal[rng.int(legal.length)] is pushed
planPick(sh, playerId, uids, seed, orders, legal) ==
  With(rngPick(seed, legal),
       LAMBDA i : planLoop(sh, playerId, Tail(uids), i.seed, Append(orders, i.v)))

planLoop(sh, playerId, uids, seed, orders) ==
  IF uids = << >> THEN [orders |-> orders, seed |-> seed]
  ELSE IF sh[Head(uids)].sunk \/ ~sh[Head(uids)].placed
    THEN planLoop(sh, playerId, Tail(uids), seed, orders)
  ELSE planPick(sh, playerId, uids, seed, orders,
                SelectSeq(candidates(sh[Head(uids)], Head(uids)),
                          LAMBDA c : canMoveShip(sh, playerId, c)))

randomMovePlan(sh, playerId, seed) ==
  planLoop(sh, playerId, FleetSeq(playerId), seed, << >>)

(***************************************************************************)
(* The salvo of the current engine, which main.ts calls. Its source is not *)
(* among the files; it is written from the specification of the engine.    *)
(***************************************************************************)
\* a count of the kinds of gun, not of the guns
gunTotalKinds(guns) == Len(guns)

RECURSIVE gunTotal(_)
gunTotal(guns) == IF guns = << >> THEN 0 ELSE Head(guns).count + gunTotal(Tail(guns))

\* the number of shells of a salvo of the ship type
gunCount(typeId) == gunTotal(SHIP_BY_ID[typeId].guns)

\* the k cells of a salvo: a run along the orientation through target, target
\* being the lower of the two middle cells when k is even
computeSalvoTargets(target, orientation, k) ==
  [i \in 1..k |->
     [x |-> target.x + (IF orientation = "H" THEN i - 1 - ((k - 1) \div 2) ELSE 0),
      y |-> target.y + (IF orientation = "V" THEN i - 1 - ((k - 1) \div 2) ELSE 0)]]

\* the state after one shell at t: hitShip is the ship it found (NoShip for
\* none), hits2 the hit segments of that ship then, sinks whether it sank
shellResolved(acc, attackerId, shipUid, t, hitShip, hits2, sinks, result) ==
  [ships |-> IF hitShip # NoShip
               THEN [acc.ships EXCEPT ![hitShip].hits = hits2,
                                      ![hitShip].sunk = IF sinks THEN TRUE ELSE @]
               ELSE acc.ships,
   players |-> IF sinks
                 THEN [acc.players EXCEPT
                         ![attackerId].destroyedEnemyShipUids =
                            IF hitShip \in Range(@) THEN @ ELSE Append(@, hitShip)]
                 ELSE acc.players,
   shotLog |-> Append(acc.shotLog, result),
   ret |-> Append(acc.ret, result)]

\* the ShotResult of the shell
shellResult(acc, attackerId, shipUid, t, hitShip, hits2, sinks) ==
  shellResolved(acc, attackerId, shipUid, t, hitShip, hits2, sinks,
                [attacker |-> attackerId, defender |-> IF attackerId = 0 THEN 1 ELSE 0,
                 shipUid |-> shipUid, target |-> cloneCoord(t), hit |-> hitShip # NoShip,
                 hitShipUid |-> hitShip,
                 sunkShipUid |-> IF sinks THEN hitShip ELSE NoShip])

\* the segment of the ship with these cells that lies at t
segmentAt(cells, t) == (CHOOSE n \in 1..Len(cells) : cells[n] = t) - 1

\* one shell at t
shell(acc, attackerId, shipUid, t, hitShip) ==
  IF hitShip = NoShip
    THEN shellResult(acc, attackerId, shipUid, t, NoShip, {}, FALSE)
  ELSE With(acc.ships[hitShip].hits \cup {segmentAt(shipCells(acc.ships[hitShip]), t)},
            LAMBDA hits2 :
              shellResult(acc, attackerId, shipUid, t, hitShip, hits2,
                          Cardinality(hits2) = SHIP_BY_ID[acc.ships[hitShip].typeId].size))

\* a salvoLoop that looks for each target among the ships of the attacker
RECURSIVE salvoLoopOwnFleet(_, _, _, _, _)
salvoLoopOwnFleet(acc, attackerId, shipUid, targets, i) ==
  IF i > Len(targets) THEN acc
  ELSE salvoLoopOwnFleet(shell(acc, attackerId, shipUid, targets[i],
                               shipAt(acc.ships, attackerId, targets[i])),
                         attackerId, shipUid, targets, i + 1)

\* the shells of a salvo, resolved one after the other
RECURSIVE salvoLoop(_, _, _, _, _)
salvoLoop(acc, attackerId, shipUid, targets, i) ==
  IF i > Len(targets) THEN acc
  ELSE salvoLoop(shell(acc, attackerId, shipUid, targets[i],
                       shipAt(acc.ships, IF attackerId = 0 THEN 1 ELSE 0, targets[i])),
                 attackerId, shipUid, targets, i + 1)

\* the result of resolveSalvo: ret = << >> for null, and the state after it
resolveSalvo(sh, pl, fired, log, attackerId, shipUid, target, orientation) ==
  IF ~canShipFire(sh, fired, attackerId, shipUid)
    THEN [ret |-> << >>, ships |-> sh, players |-> pl, firedThisRound |-> fired,
          shotLog |-> log]
  ELSE
    With(salvoLoop([ships |-> sh, players |-> pl, shotLog |-> log, ret |-> << >>],
                   attackerId, shipUid,
                   computeSalvoTargets(target, orientation,
                                       gunCount(sh[shipUid].typeId)), 1),
         LAMBDA acc :
           [ret |-> acc.ret, ships |-> acc.ships, players |-> acc.players,
            firedThisRound |-> [fired EXCEPT ![attackerId] = @ \cup {shipUid}],
            shotLog |-> acc.shotLog])

(***************************************************************************)
(* Boards the engine can be in: every board is built from the constructed  *)
(* state by the calls themselves.                                          *)
(***************************************************************************)
\* the boards placeShip calls can build for the ships of uids, in that order:
\* each ship is left unplaced or placed wherever placeShip accepts it
RECURSIVE placedBoards(_, _)
placedBoards(sh, uids) ==
  IF uids = << >> THEN {sh}
  ELSE LET uid == Head(uids)
           here == {sh} \cup
                   {placeShip(sh, uid[1], uid, a, o).ships :
                      <<a, o>> \in {ao \in Coord \X Orientation :
                                     placeShip(sh, uid[1], uid, ao[1], ao[2]).ret}}
       IN UNION {placedBoards(b, Tail(uids)) : b \in here}

\* the home of a ship: horizontal at column 0 of the row of its index in the
\* catalog, the rows of player 1 coming after the rows of player 0
homeRow(uid) ==
  (CHOOSE i \in 1..Len(Roster) : Roster[i].id = uid[2]) - 1 + uid[1] * FleetSize

\* the boards with each ship of uids left unplaced or placed at its home
RECURSIVE homeBoards(_, _)
homeBoards(sh, uids) ==
  IF uids = << >> THEN {sh}
  ELSE LET uid == Head(uids)
           r == placeShip(sh, uid[1], uid, [x |-> 0, y |-> homeRow(uid)], "H")
       IN UNION {homeBoards(b, Tail(uids)) : b \in {sh} \cup (IF r.ret THEN {r.ships} ELSE {})}

\* the boards with one fleet at home or unplaced and the other fleet placed
\* anywhere placeShip accepts
Boards(start) ==
  UNION {UNION {placedBoards(h, FleetSeq(owner)) :
                  h \in homeBoards(start, FleetSeq(1 - owner))} : owner \in PlayerId}

\* the engine state on a board before any shot
freshCore(sh) ==
  [ships |-> sh, players |-> [p \in PlayerId |-> createPlayer(p)],
   firedThisRound |-> [p \in PlayerId |-> {}], shotLog |-> << >>]

\* the first ship of a fleet that is placed and not sunk, NoShip if none
firstLive(sh, owner) ==
  LET live(i) == sh[FleetSeq(owner)[i]].placed /\ ~sh[FleetSeq(owner)[i]].sunk
  IN IF \E i \in 1..Len(FleetSeq(owner)) : live(i)
       THEN FleetSeq(owner)[CHOOSE i \in 1..Len(FleetSeq(owner)) :
                              live(i) /\ \A j \in 1..(i - 1) : ~live(j)]
       ELSE NoShip

\* the state after the enemy's first live ship has shot at the anchor of
\* victim, one shot a round, until victim is sunk
RECURSIVE sunkBy(_, _)
sunkBy(core, victim) ==
  LET shooter == firstLive(core.ships, 1 - victim[1])
      r == resolveShot(core.ships, core.players,
                       resetFiringRound(core.firedThisRound), core.shotLog,
                       1 - victim[1], shooter, core.ships[victim].anchor)
      next == [ships |-> r.ships, players |-> r.players,
               firedThisRound |-> r.firedThisRound, shotLog |-> r.shotLog]
  IN IF core.ships[victim].sunk THEN core ELSE sunkBy(next, victim)

\* the ships sunk in a tried state: the first live ship of a fleet, when the
\* other fleet has a live ship to sink it
Sinkable(sh) ==
  {u \in AllUids : u = firstLive(sh, u[1]) /\ firstLive(sh, 1 - u[1]) # NoShip}

\* the engine states the calls are tried in: a board, fresh or with one ship sunk
Cores(boards) ==
  UNION {{freshCore(b)} \cup {sunkBy(freshCore(b), v) : v \in Sinkable(b)} :
           b \in boards}

\* main.ts before a game is started: game is null, the menu is shown
UiMenu ==
  [mode |-> "menu", phase |-> "menu", winner |-> NoPlayer, activeViewer |-> 0,
   placementOrientation |-> "H", movementOrientation |-> "H",
   targetingOrientation |-> "H",
   selectedPlacementShipUid |-> NoShip, selectedFiringShipUid |-> NoShip,
   selectedMoveShipUid |-> NoShip,
   plannedMoves |-> [p \in PlayerId |-> << >>],
   aiBusy |-> FALSE, aiTask |-> "idle",
   passShown |-> FALSE, passCallback |-> NoPlayer,
   fireQueue |-> << >>, impactQueue |-> << >>,
   rng |-> <<0, 1337>>,
   dom |-> [kind |-> "menu", me |-> 0, buttons |-> {}, canAct |-> FALSE],
   shooter |-> NoPlayer, resolveCalls |-> 0, rotations |-> 0]

NoCall == [op |-> "none"]

Origin == [x |-> 0, y |-> 0]

(***************************************************************************)
(* SpecPlace: one placeShip call in any engine state.                      *)
(***************************************************************************)
\* the uids a caller may name: every ship of the game and an unknown one
CallUids == AllUids \cup {GhostUid}

InitPlace ==
  /\ \E core \in Cores(Boards(makeShips)) :
       /\ ships = core.ships
       /\ players = core.players
       /\ firedThisRound = core.firedThisRound
       /\ shotLog = core.shotLog
  /\ round = 1
  /\ last = NoCall
  /\ calls = 0
  /\ ui = UiMenu

PlaceShipCall ==
  /\ calls < MaxCalls
  /\ \E owner \in PlayerId, uid \in CallUids, anchor \in Coord, o \in Orientation :
       \* a uid the player does not hold is tried with one anchor only
       /\ uid \in FleetSet(owner) \/ (anchor = Origin /\ o = "H")
       /\ LET r == placeShip(ships, owner, uid, anchor, o)
          IN
          /\ ships' = r.ships
          /\ last' = [op |-> "placeShip", owner |-> owner, shipUid |-> uid,
                      anchor |-> anchor, orientation |-> o, ret |-> r.ret,
                      before |-> ships]
          /\ calls' = calls + 1
          /\ UNCHANGED <<players, firedThisRound, shotLog, round, ui>>

NextPlace == PlaceShipCall

SpecPlace == InitPlace /\ [][NextPlace]_vars

(***************************************************************************)
(* SpecFire: fire requests and round changes. Every ship is unplaced or at *)
(* its home; requests aim at the cells of column 0.                        *)
(***************************************************************************)
FireTargets == {c \in Coord : c.x = 0}

coreNow ==
  [ships |-> ships, players |-> players, firedThisRound |-> firedThisRound,
   shotLog |-> shotLog]

InitFire ==
  /\ ships \in homeBoards(makeShips, AllShipSeq)
  /\ players = [p \in PlayerId |-> createPlayer(p)]
  /\ firedThisRound = [p \in PlayerId |-> {}]
  /\ shotLog = << >>
  /\ round = 1
  /\ last = NoCall
  /\ calls = 0
  /\ ui = UiMenu

ResolveShotCall ==
  \E attackerId \in PlayerId, uid \in CallUids, target \in FireTargets :
       LET r == resolveShot(ships, players, firedThisRound, shotLog,
                            attackerId, uid, target)
       IN \* a uid the attacker does not hold is tried with one target only
          /\ uid \in FleetSet(attackerId) \/ target = Origin
          /\ r.ret = NoShot \/ Len(shotLog) < MaxShots
          /\ ships' = r.ships
          /\ players' = r.players
          /\ firedThisRound' = r.firedThisRound
          /\ shotLog' = r.shotLog
          /\ last' = [op |-> "resolveShot", attacker |-> attackerId, shipUid |-> uid,
                      target |-> target, ret |-> r.ret, before |-> coreNow]
          /\ UNCHANGED <<round, calls, ui>>

\* the end of resolveMovementPhase (main.ts): the next round starts
StartNextRound ==
  /\ round < MaxRound
  /\ players' = newRound(players)
  /\ round' = round + 1
  /\ firedThisRound' = resetFiringRound(firedThisRound)
  /\ last' = [op |-> "startNextRound", before |-> coreNow]
  /\ UNCHANGED <<ships, shotLog, calls, ui>>

NextFiringPlayerCall ==
  /\ \E current \in PlayerId :
       last' = [op |-> "nextFiringPlayer", current |-> current,
                ret |-> nextFiringPlayer(ships, firedThisRound, current),
                before |-> coreNow]
  /\ UNCHANGED <<ships, players, firedThisRound, shotLog, round, calls, ui>>

NextFire ==
  \/ ResolveShotCall
  \/ StartNextRound
  \/ NextFiringPlayerCall

SpecFire == InitFire /\ [][NextFire]_vars

(***************************************************************************)
(* SpecCanMove: one canMoveShip call in any engine state.                  *)
(***************************************************************************)
\* the orders a caller may give: any destination and orientation for a ship
\* of the game, and one skip order and one ghost order
Orders ==
  {[shipUid |-> u, to |-> c, orientation |-> o, skip |-> FALSE] :
     u \in AllUids, c \in Coord, o \in Orientation}
  \cup {[shipUid |-> u, to |-> Origin, orientation |-> "H", skip |-> TRUE] : u \in CallUids}
  \cup {[shipUid |-> GhostUid, to |-> Origin, orientation |-> "H", skip |-> FALSE]}

CanMoveShipCall ==
  /\ calls < MaxCalls
  /\ \E playerId \in PlayerId, order \in Orders :
       last' = [op |-> "canMoveShip", playerId |-> playerId, order |-> order,
                ret |-> canMoveShip(ships, playerId, order), before |-> ships]
  /\ calls' = calls + 1
  /\ UNCHANGED <<ships, players, firedThisRound, shotLog, round, ui>>

NextCanMove == CanMoveShipCall

SpecCanMove == InitPlace /\ [][NextCanMove]_vars

(***************************************************************************)
(* SpecMove: one resolveMovement call, each list holding at most one order, *)
(* on a board whose ships are unplaced or at home.                         *)
(***************************************************************************)
OrderLists == {<< >>} \cup {<<o>> : o \in Orders}

InitMove ==
  /\ ships \in homeBoards(makeShips, AllShipSeq)
  /\ players = [p \in PlayerId |-> createPlayer(p)]
  /\ firedThisRound = [p \in PlayerId |-> {}]
  /\ shotLog = << >>
  /\ round = 1
  /\ last = NoCall
  /\ calls = 0
  /\ ui = UiMenu

ResolveMovementCall ==
  /\ calls < MaxCalls
  /\ \E p1Orders \in OrderLists, p2Orders \in OrderLists :
       LET r == resolveMovement(ships, p1Orders, p2Orders)
       IN /\ ships' = r.ships
          /\ last' = [op |-> "resolveMovement", p1Orders |-> p1Orders,
                      p2Orders |-> p2Orders, applied |-> r.applied,
                      rejected |-> r.rejected, before |-> ships]
  /\ calls' = calls + 1
  /\ UNCHANGED <<players, firedThisRound, shotLog, round, ui>>

NextMove == ResolveMovementCall

SpecMove == InitMove /\ [][NextMove]_vars

(***************************************************************************)
(* SpecSalvo: one call of resolveSalvo, computeSalvoTargets or hasWinner,  *)
(* on a board whose ships are unplaced or at home and have been shot at.   *)
(***************************************************************************)
\* the most guns computeSalvoTargets is called with
MaxGuns == 3

\* the state after the first live ship of the enemy of victim has fired at c,
\* in a new round, along the victim
strike(core, victim, c) ==
  With(resolveSalvo(core.ships, core.players, resetFiringRound(core.firedThisRound),
                    core.shotLog, 1 - victim[1], firstLive(core.ships, 1 - victim[1]),
                    c, core.ships[victim].orientation),
       LAMBDA r : [ships |-> r.ships, players |-> r.players,
                   firedThisRound |-> r.firedThisRound, shotLog |-> r.shotLog])

\* the first cell of the ship that no shell has hit
firstSound(ship) ==
  shipCells(ship)[CHOOSE n \in 1..Len(shipCells(ship)) :
                    /\ (n - 1) \notin ship.hits
                    /\ \A m \in 1..(n - 1) : (m - 1) \in ship.hits]

\* the state after salvos at the sound cells of victim, one a round, until
\* victim is sunk
RECURSIVE sunkBySalvos(_, _)
sunkBySalvos(core, victim) ==
  IF core.ships[victim].sunk \/ ~core.ships[victim].placed
     \/ firstLive(core.ships, 1 - victim[1]) = NoShip
    THEN core
  ELSE sunkBySalvos(strike(core, victim, firstSound(core.ships[victim])), victim)

\* the states of cores, and those a salvo at the anchor of a ship or the
\* sinking of a ship makes of them
shotAt(cores) ==
  cores
  \cup {strike(c, v, c.ships[v].anchor) : c \in cores, v \in AllUids}
  \cup {sunkBySalvos(c, v) : c \in cores, v \in AllUids}

InitSalvo ==
  /\ \E core \in shotAt(shotAt({freshCore(b) : b \in homeBoards(makeShips, AllShipSeq)})) :
       /\ ships = core.ships
       /\ players = core.players
       /\ firedThisRound = core.firedThisRound
       /\ shotLog = core.shotLog
  /\ round = 1
  /\ last = NoCall
  /\ calls = 0
  /\ ui = UiMenu

ResolveSalvoCall ==
  /\ calls < MaxCalls
  /\ \E attackerId \in PlayerId, uid \in CallUids, target \in Coord, o \in Orientation :
       \* a uid the attacker does not hold is tried with one target only
       /\ uid \in FleetSet(attackerId) \/ (target = Origin /\ o = "H")
       /\ \E r \in {resolveSalvo(ships, players, firedThisRound, shotLog,
                                 attackerId, uid, target, o)} :
            /\ ships' = r.ships
            /\ players' = r.players
            /\ firedThisRound' = r.firedThisRound
            /\ shotLog' = r.shotLog
            /\ last' = [op |-> "resolveSalvo", attacker |-> attackerId, shipUid |-> uid,
                        target |-> target, orientation |-> o, ret |-> r.ret,
                        before |-> coreNow]
  /\ calls' = calls + 1
  /\ UNCHANGED <<round, ui>>

ComputeSalvoTargetsCall ==
  /\ calls < MaxCalls
  /\ \E target \in Coord, o \in Orientation, k \in 1..MaxGuns :
       last' = [op |-> "computeSalvoTargets", target |-> target, orientation |-> o,
                k |-> k, ret |-> computeSalvoTargets(target, o, k)]
  /\ calls' = calls + 1
  /\ UNCHANGED <<ships, players, firedThisRound, shotLog, round, ui>>

HasWinnerCall ==
  /\ calls < MaxCalls
  /\ last' = [op |-> "hasWinner", ret |-> hasWinner(ships), before |-> coreNow]
  /\ calls' = calls + 1
  /\ UNCHANGED <<ships, players, firedThisRound, shotLog, round, ui>>

NextSalvo ==
  \/ ResolveSalvoCall
  \/ ComputeSalvoTargetsCall
  \/ HasWinnerCall

SpecSalvo == InitSalvo /\ [][NextSalvo]_vars

(***************************************************************************)
(* SpecWreck: one resolveMovement call in a game under way: the fleets at   *)
(* home, the scout of player 1 placed or not, after the sinking of one     *)
(* ship, or the scouts alone after a salvo at the bow of one of them.      *)
(***************************************************************************)
wreckCores ==
  {sunkBySalvos(freshCore(b), v) :
     b \in {h \in homeBoards(makeShips, AllShipSeq) :
              \A u \in AllUids \ {Uid(1, "scout")} : h[u].placed},
     v \in AllUids}
  \cup {strike(freshCore(b), v, b[v].anchor) :
          b \in {h \in homeBoards(makeShips, AllShipSeq) :
                   \A u \in AllUids : h[u].placed <=> u[2] = "scout"},
          v \in {Uid(0, "scout"), Uid(1, "scout")}}

InitWreck ==
  /\ \E core \in wreckCores :
       /\ ships = core.ships
       /\ players = core.players
       /\ firedThisRound = core.firedThisRound
       /\ shotLog = core.shotLog
  /\ round = 1
  /\ last = NoCall
  /\ calls = 0
  /\ ui = UiMenu

SpecWreck == InitWreck /\ [][NextMove]_vars

(***************************************************************************)
(* SpecSkip: one canMoveShip call in a game under way, the order being any *)
(* order of a resolveMovement call or a skip order that carries any        *)
(* destination, on the board or off it, and any orientation.               *)
(***************************************************************************)
SkipOrders ==
  {[shipUid |-> u, to |-> c, orientation |-> o, skip |-> TRUE] :
     u \in CallUids,
     c \in Coord \cup {[x |-> BOARD_SIZE, y |-> 0 - 1]},
     o \in Orientation}

CanMoveSkipCall ==
  /\ calls < MaxCalls
  /\ \E playerId \in PlayerId, order \in Orders \cup SkipOrders :
       last' = [op |-> "canMoveShip", playerId |-> playerId, order |-> order,
                ret |-> canMoveShip(ships, playerId, order), before |-> ships]
  /\ calls' = calls + 1
  /\ UNCHANGED <<ships, players, firedThisRound, shotLog, round, ui>>

NextSkip == CanMoveSkipCall

SpecSkip == InitWreck /\ [][NextSkip]_vars

(***************************************************************************)
(* main.ts: the game as the page runs it. A handler is a function of the   *)
(* whole state s: the GameState fields and ui, the variables of the module.*)
(* A handler that awaits a timer ends at the await; what follows the await *)
(* is a step of its own, taken when the timer fires.                       *)
(***************************************************************************)
\* the most shells resolved after the initial state
MaxShells == 5
\* the most presses of the rotate key
MaxRotations == 1
\* the most salvos that have shells in flight when an input is handled or a
\* timer of the computer player fires
MaxInFlight == 0

currentPlayerForPhase(phase) ==
  IF phase \in {"placement_p1", "firing_p1", "movement_p1"} THEN 0
  ELSE IF phase \in {"placement_p2", "firing_p2", "movement_p2"} THEN 1
  ELSE NoPlayer

\* array.find(...)?.uid ?? null
firstOf(uids) == IF uids = << >> THEN NoShip ELSE Head(uids)

pickDefaultFiringShip(s, playerId) ==
  firstOf(SelectSeq(FleetSeq(playerId),
                    LAMBDA u : canShipFire(s.ships, s.firedThisRound, playerId, u)))

\* player.ships.find((s) => !s.placed)?.uid ?? null
nextUnplaced(sh, owner) == firstOf(SelectSeq(FleetSeq(owner), LAMBDA u : ~sh[u].placed))

\* Map.set on a map kept as the sequence of its values in insertion order
mapSet(plan, order) ==
  IF \E i \in 1..Len(plan) : plan[i].shipUid = order.shipUid
    THEN [i \in 1..Len(plan) |->
            IF plan[i].shipUid = order.shipUid THEN order ELSE plan[i]]
  ELSE Append(plan, order)

\* Map.has
mapHas(plan, uid) == \E i \in 1..Len(plan) : plan[i].shipUid = uid

\* what render() puts on the page: the panel of the phase, the player it is
\* drawn for, the ship buttons that are enabled and whether the viewer may act
pageOf(s) ==
  LET u == s.ui
      me == u.activeViewer
      canAct == currentPlayerForPhase(u.phase) = me
      mine == FleetSet(me)
  IN IF u.phase \in {"placement_p1", "placement_p2"}
       THEN [kind |-> "placement", me |-> me, canAct |-> canAct,
             buttons |-> {v \in mine : ~s.ships[v].placed}]
     ELSE IF u.phase \in {"firing_p1", "firing_p2"}
       THEN [kind |-> "firing", me |-> me, canAct |-> canAct,
             buttons |-> {v \in mine : s.ships[v].placed /\ ~s.ships[v].sunk /\ canAct
                                       /\ canShipFire(s.ships, s.firedThisRound, me, v)}]
     ELSE IF u.phase \in {"movement_p1", "movement_p2"}
       THEN [kind |-> "movement", me |-> me, canAct |-> canAct,
             buttons |-> {v \in mine : s.ships[v].placed /\ ~s.ships[v].sunk /\ canAct}]
     ELSE [kind |-> "game_over", me |-> me, canAct |-> FALSE, buttons |-> {}]

\* maybeRunAI up to its first await
maybeRunAI(s) ==
  IF s.ui.aiBusy \/ s.ui.passShown \/ s.ui.mode # "1p" THEN s
  ELSE IF s.ui.phase = "firing_p2"
    THEN [s EXCEPT !.ui.aiBusy = TRUE, !.ui.aiTask = "fireWait"]
  ELSE IF s.ui.phase = "movement_p2"
    THEN With(randomMovePlan(s.ships, 1, s.ui.rng),
              LAMBDA plan : [s EXCEPT !.ui.aiBusy = TRUE, !.ui.aiTask = "moveWait",
                                      !.ui.plannedMoves[1] = plan.orders,
                                      !.ui.rng = plan.seed])
  ELSE s

render(s) ==
  With(IF s.ui.phase \in {"firing_p1", "firing_p2"}
          /\ (s.ui.selectedFiringShipUid = NoShip
              \/ ~canShipFire(s.ships, s.firedThisRound, s.ui.activeViewer,
                              s.ui.selectedFiringShipUid))
         THEN [s EXCEPT !.ui.selectedFiringShipUid =
                           pickDefaultFiringShip(s, s.ui.activeViewer)]
         ELSE s,
       LAMBDA s1 : maybeRunAI([s1 EXCEPT !.ui.dom = pageOf(s1)]))

\* the overlay is shown; the button on it will hand the view to playerId
requestPass(s, playerId) ==
  [s EXCEPT !.ui.passShown = TRUE, !.ui.passCallback = playerId]

\* selectedFiringShipUid = pickDefaultFiringShip(playerId)
pickFiringShip(s, playerId) ==
  [s EXCEPT !.ui.selectedFiringShipUid = pickDefaultFiringShip(s, playerId)]

\* an onPlacementFinished that opens the firing without the computer's fleet
onPlacementFinishedNoFleet(s, playerId) ==
  IF playerId = 0
    THEN IF s.ui.mode = "1p"
           THEN render(pickFiringShip(
                  [s EXCEPT !.firedThisRound = resetFiringRound(@),
                            !.ui.phase = "firing_p1", !.ui.activeViewer = 0], 0))
         ELSE requestPass([s EXCEPT !.ui.phase = "placement_p2",
                                    !.ui.selectedPlacementShipUid = FleetSeq(1)[1]], 1)
  ELSE requestPass(pickFiringShip([s EXCEPT !.firedThisRound = resetFiringRound(@),
                                            !.ui.phase = "firing_p1"], 0), 0)

onPlacementFinished(s, playerId) ==
  IF playerId = 0
    THEN IF s.ui.mode = "1p"
           THEN With(randomFleetPlacement(s.ships, 1, s.ui.rng),
                     LAMBDA fleet :
                       render(pickFiringShip(
                         [s EXCEPT !.ships = fleet.ships, !.ui.rng = fleet.seed,
                                   !.firedThisRound = resetFiringRound(@),
                                   !.ui.phase = "firing_p1", !.ui.activeViewer = 0],
                         0)))
         ELSE requestPass([s EXCEPT !.ui.phase = "placement_p2",
                                    !.ui.selectedPlacementShipUid = FleetSeq(1)[1]], 1)
  ELSE requestPass(pickFiringShip([s EXCEPT !.firedThisRound = resetFiringRound(@),
                                            !.ui.phase = "firing_p1"], 0), 0)

\* doHumanFire from resolveSalvo to await wait(650): r is what resolveSalvo
\* returned for the state s0. The rest of doHumanFire is queued in fireQueue
\* with the caller that awaits it, the impact callbacks in impactQueue.
salvoFired(s0, r, playerId, caller) ==
  IF r.ret = << >> THEN [state |-> s0, awaits |-> FALSE]
  ELSE [state |->
          [s0 EXCEPT !.ships = r.ships, !.players = r.players,
                     !.firedThisRound = r.firedThisRound,
                     !.shotLog = r.shotLog,
                     !.ui.impactQueue = Append(@, r.ret),
                     !.ui.fireQueue =
                        Append(@, [playerId |-> playerId, caller |-> caller]),
                     !.ui.shooter = playerId,
                     !.last = [op |-> "salvo", player |-> playerId,
                               previous |-> s0.ui.shooter, ships |-> s0.ships,
                               fired |-> s0.firedThisRound]],
        awaits |-> TRUE]

\* doHumanFire from the choice of the orientation on; draw is rng.int(2)
salvoAlong(s, draw, playerId, shipUid, target, caller) ==
  salvoFired(IF s.ui.mode = "1p" /\ playerId # s.ui.activeViewer
               THEN [s EXCEPT !.ui.rng = draw.seed] ELSE s,
             resolveSalvo(s.ships, s.players, s.firedThisRound, s.shotLog,
                          playerId, shipUid, target,
                          IF s.ui.mode = "1p" /\ playerId # s.ui.activeViewer
                            THEN (IF draw.v = 0 THEN "H" ELSE "V")
                            ELSE s.ui.targetingOrientation),
             playerId, caller)

\* doHumanFire up to await wait(650): awaits is FALSE when it returned before
doHumanFire(s, playerId, shipUid, target, caller) ==
  IF ~canShipFire(s.ships, s.firedThisRound, playerId, shipUid)
    THEN [state |-> s, awaits |-> FALSE]
  ELSE salvoAlong(s, rngInt(s.ui.rng, 2), playerId, shipUid, target, caller)

\* the end of doHumanFire: the overlay is requested or the page rendered
handOver(t, pass, playerId) == IF pass THEN requestPass(t, playerId) ELSE render(t)

\* doHumanFire after await wait(650): winner is what hasWinner returned,
\* nextShooter what nextFiringPlayer returned, toMovement whether the firing
\* phase is over
turnAfter(s, playerId, winner, nextShooter, toMovement) ==
  IF winner # NoPlayer
    THEN handOver([s EXCEPT !.ui.phase = "game_over", !.ui.winner = winner], FALSE, 0)
  ELSE IF toMovement
    THEN handOver([s EXCEPT !.ui.phase = "movement_p1",
                            !.ui.selectedMoveShipUid = firstLive(s.ships, 0),
                            !.ui.plannedMoves = [p \in PlayerId |-> << >>],
                            !.ui.selectedFiringShipUid = NoShip],
                  s.ui.mode = "2p", 0)
  ELSE handOver(pickFiringShip([s EXCEPT !.ui.phase = IF nextShooter = 0 THEN "firing_p1"
                                                      ELSE "firing_p2"], nextShooter),
                s.ui.mode = "2p" /\ nextShooter # playerId, nextShooter)

\* a nextTurn that skips the winner when the game is over already
nextTurnOnce(s, playerId, winner, nextShooter) ==
  turnAfter(s, playerId, IF s.ui.phase = "game_over" THEN NoPlayer ELSE winner,
            nextShooter,
            nextShooter = NoPlayer
              \/ (~hasUnfiredShips(s.ships, s.firedThisRound, 0)
                  /\ ~hasUnfiredShips(s.ships, s.firedThisRound, 1)))

\* doHumanFire after await wait(650), when nextFiringPlayer has returned
nextTurn(s, playerId, winner, nextShooter) ==
  turnAfter(s, playerId, winner, nextShooter,
            nextShooter = NoPlayer
              \/ (~hasUnfiredShips(s.ships, s.firedThisRound, 0)
                  /\ ~hasUnfiredShips(s.ships, s.firedThisRound, 1)))

\* doHumanFire after await wait(650)
afterSalvo(s, playerId) ==
  nextTurn(s, playerId, hasWinner(s.ships),
           nextFiringPlayer(s.ships, s.firedThisRound, playerId))

\* one pass of the while loop of resolveMovementPhase in a game against the
\* computer: result is what resolveMovement returned
RECURSIVE resolveLoop(_, _)
resolvePass(s, result, tries) ==
  IF SelectSeq(result.rejected, LAMBDA uid : uid[1] = 1) = << >>
    THEN [s EXCEPT !.ships = result.ships, !.ui.resolveCalls = tries + 1]
  ELSE With(randomMovePlan(result.ships, 1, s.ui.rng),
            LAMBDA plan :
              resolveLoop([s EXCEPT !.ships = result.ships,
                                    !.ui.resolveCalls = tries + 1,
                                    !.ui.plannedMoves[1] = plan.orders,
                                    !.ui.rng = plan.seed], tries + 1))

\* the while loop of resolveMovementPhase in a game against the computer
resolveLoop(s, tries) ==
  IF ~(tries < 6) THEN s
  ELSE resolvePass(s, resolveMovement(s.ships, s.ui.plannedMoves[0],
                                      s.ui.plannedMoves[1]), tries)

\* resolveMovementPhase after the moves are resolved: s1 is the state then,
\* s the state the phase began in
startRound(s1, s) ==
  With([s1 EXCEPT !.players = newRound(@),
                  !.round = @ + 1,
                  !.firedThisRound = resetFiringRound(@),
                  !.ui.phase = "firing_p1",
                  !.ui.shooter = NoPlayer,
                  !.ui.resolveCalls = 0,
                  !.ui.selectedMoveShipUid = NoShip,
                  !.ui.plannedMoves = [p \in PlayerId |-> << >>],
                  !.last = [op |-> "resolveMovementPhase", before |-> s.ships,
                            plans |-> s.ui.plannedMoves, round |-> s.round,
                            phase |-> s.ui.phase, calls |-> s1.ui.resolveCalls]],
       LAMBDA t : render(IF s.ui.mode = "2p" THEN requestPass(pickFiringShip(t, 0), 0)
                         ELSE pickFiringShip(t, 0)))

resolveMovementPhase(s) ==
  startRound(IF s.ui.mode = "1p" THEN resolveLoop(s, 0)
             ELSE [s EXCEPT !.ships = resolveMovement(s.ships, s.ui.plannedMoves[0],
                                                      s.ui.plannedMoves[1]).ships,
                            !.ui.resolveCalls = 1],
             s)

\* a maybeFinalizeMovementPhase that does not wait for the plan to be complete
maybeFinalizeEarly(s) ==
  LET pid == currentPlayerForPhase(s.ui.phase)
  IN IF pid = NoPlayer THEN s
     ELSE IF pid = 0
       THEN With([s EXCEPT !.ui.phase = "movement_p2",
                           !.ui.selectedMoveShipUid = firstLive(s.ships, 1)],
                 LAMBDA t : IF s.ui.mode = "2p" THEN requestPass(t, 1) ELSE t)
     ELSE resolveMovementPhase(s)

maybeFinalizeMovementPhase(s) ==
  LET pid == currentPlayerForPhase(s.ui.phase)
  IN IF pid = NoPlayer THEN s
     ELSE IF ~(\A v \in FleetSet(pid) :
                  (~s.ships[v].sunk /\ s.ships[v].placed)
                     => mapHas(s.ui.plannedMoves[pid], v)) THEN s
     ELSE IF pid = 0
       THEN With([s EXCEPT !.ui.phase = "movement_p2",
                           !.ui.selectedMoveShipUid = firstLive(s.ships, 1)],
                 LAMBDA t : IF s.ui.mode = "2p" THEN requestPass(t, 1) ELSE t)
     ELSE resolveMovementPhase(s)

startGame(s, mode) ==
  render([s EXCEPT !.ships = makeShips,
                   !.players = [p \in PlayerId |-> createPlayer(p)],
                   !.firedThisRound = [p \in PlayerId |-> {}],
                   !.shotLog = << >>, !.round = 1,
                   !.ui = [UiMenu EXCEPT !.mode = mode, !.phase = "placement_p1",
                                         !.rng = <<1, 24674>>,
                                         !.selectedPlacementShipUid = FleetSeq(0)[1]]])

\* the placement branch of the click handler after placeShip returned r
afterPlaceShip(s, r, v) ==
  IF ~r.ret THEN render(s)
  ELSE With([s EXCEPT !.ships = r.ships,
                      !.ui.selectedPlacementShipUid = nextUnplaced(r.ships, v)],
            LAMBDA t : render(IF allShipsPlaced(r.ships, v)
                                THEN onPlacementFinished(t, v) ELSE t))

\* the movement branch of the click handler once the order is valid: plan is
\* plannedMoves[v] with the order set
afterPlan(s, plan, v) ==
  With(firstOf(SelectSeq(FleetSeq(v),
                         LAMBDA w : ~s.ships[w].sunk /\ s.ships[w].placed
                                    /\ ~mapHas(plan, w))),
       LAMBDA next :
         render(maybeFinalizeMovementPhase(
           [s EXCEPT !.ui.plannedMoves[v] = plan,
                     !.ui.selectedMoveShipUid = IF next = NoShip THEN @ ELSE next])))

\* a legality check made on the board the other player's plan would leave
orderValidAfterPlans(s, v, order) ==
  canMoveShip(resolveMovement(s.ships, << >>, s.ui.plannedMoves[1 - v]).ships, v, order)

\* const valid = canMoveShip(game, activeViewer, order)
orderValid(s, v, order) == canMoveShip(s.ships, v, order)

\* a handler that awaited doHumanFire goes on when doHumanFire has returned
awaited(f) == IF f.awaits THEN f.state ELSE render(f.state)

\* the click handler of the canvas, for a pick on board at cell
canvasClick(s, board, cell) ==
  LET u == s.ui
      v == u.activeViewer
      order == [shipUid |-> u.selectedMoveShipUid, to |-> cell,
                orientation |-> u.movementOrientation, skip |-> FALSE]
  IN IF (u.phase = "placement_p1" /\ v = 0) \/ (u.phase = "placement_p2" /\ v = 1)
       THEN IF board # "own" \/ u.selectedPlacementShipUid = NoShip THEN s
            ELSE afterPlaceShip(s, placeShip(s.ships, v, u.selectedPlacementShipUid, cell,
                                             u.placementOrientation), v)
     ELSE IF (u.phase = "firing_p1" /\ v = 0) \/ (u.phase = "firing_p2" /\ v = 1)
       THEN IF board # "target" \/ u.selectedFiringShipUid = NoShip THEN s
            ELSE awaited(doHumanFire(s, v, u.selectedFiringShipUid, cell, "click"))
     ELSE IF (u.phase = "movement_p1" /\ v = 0) \/ (u.phase = "movement_p2" /\ v = 1)
       THEN IF board # "own" \/ u.selectedMoveShipUid = NoShip THEN s
            ELSE IF ~orderValid(s, v, order) THEN render(s)
            ELSE afterPlan(s, mapSet(u.plannedMoves[v], order), v)
     ELSE s

\* applyMarkerOnce
applyMarkerOnce(arr, marker) == IF marker \in Range(arr) THEN arr ELSE Append(arr, marker)

\* the impact callback of one shell, r its ShotResult
onImpact(s, r) ==
  IF r.hit /\ r.hitShipUid # NoShip
    THEN [s EXCEPT
            !.players[r.attacker].ephemeralHits = @ \cup {key(r.target)},
            !.players[r.attacker].ephemeralImpactMarkers =
               applyMarkerOnce(@, [board |-> "target", shipUid |-> r.hitShipUid,
                                   target |-> r.target]),
            !.players[r.defender].ephemeralImpactMarkers =
               applyMarkerOnce(@, [board |-> "own", shipUid |-> r.hitShipUid,
                                   target |-> r.target])]
  ELSE [s EXCEPT !.players[r.attacker].misses = @ \cup {key(r.target)}]

\* the skip button of the movement panel, drawn for player me
skipShip(s, me) ==
  LET uid == s.ui.selectedMoveShipUid
  IN IF uid = NoShip
        \/ ~(uid \in FleetSet(me) /\ ~s.ships[uid].sunk /\ s.ships[uid].placed) THEN s
     ELSE render(maybeFinalizeMovementPhase(
            [s EXCEPT !.ui.plannedMoves[s.ui.activeViewer] =
                         mapSet(@, [shipUid |-> uid, to |-> s.ships[uid].anchor,
                                    orientation |-> s.ships[uid].orientation,
                                    skip |-> TRUE])]))

\* the button of the pass overlay
passClick(s) ==
  render([s EXCEPT !.ui.passShown = FALSE,
                   !.ui.activeViewer = s.ui.passCallback,
                   !.ui.passCallback = NoPlayer])

\* a ship button of the panel that was drawn last
selectShip(s, uid) ==
  render(IF s.ui.dom.kind = "placement"
           THEN [s EXCEPT !.ui.selectedPlacementShipUid = uid]
         ELSE IF s.ui.dom.kind = "firing"
           THEN [s EXCEPT !.ui.selectedFiringShipUid = uid]
         ELSE [s EXCEPT !.ui.selectedMoveShipUid = uid])

\* the clear button of the movement panel
clearMoves(s) == render([s EXCEPT !.ui.plannedMoves[s.ui.activeViewer] = << >>])

\* the keydown handler, for the key r
rotateKey(s) ==
  LET flip(o) == IF o = "H" THEN "V" ELSE "H"
  IN render(IF s.ui.phase \in {"firing_p1", "firing_p2"}
              THEN [s EXCEPT !.ui.targetingOrientation = flip(@),
                             !.ui.rotations = @ + 1]
            ELSE IF s.ui.phase \in {"movement_p1", "movement_p2"}
              THEN [s EXCEPT !.ui.movementOrientation = flip(@),
                             !.ui.rotations = @ + 1]
            ELSE [s EXCEPT !.ui.placementOrientation = flip(@),
                           !.ui.rotations = @ + 1])

\* maybeRunAI when it is done: aiBusy = false
aiDone(s) == [s EXCEPT !.ui.aiBusy = FALSE, !.ui.aiTask = "idle"]

\* maybeRunAI in firing_p2 once randomLegalShot returned a shot and
\* doHumanFire was called
aiFired(f) ==
  IF f.awaits THEN [f.state EXCEPT !.ui.aiTask = "fireAwait"] ELSE aiDone(f.state)

\* maybeRunAI in firing_p2, after await wait(500); shot is what
\* randomLegalShot returned
aiShot(s, shot) ==
  IF shot.shipUid = NoShip THEN aiDone([s EXCEPT !.ui.rng = shot.seed])
  ELSE aiFired(doHumanFire([s EXCEPT !.ui.rng = shot.seed], 1, shot.shipUid,
                           shot.target, "ai"))

aiFire(s) ==
  aiShot(s, randomLegalShot(s.ships, s.players, s.firedThisRound, 1, s.ui.rng))

\* maybeRunAI in movement_p2, after await wait(400)
aiMove(s) == aiDone(resolveMovementPhase(s))

\* the next shell of salvo i of the salvos in flight lands
impact(s, i) ==
  onImpact([s EXCEPT !.ui.impactQueue =
                        SelectSeq([j \in 1..Len(@) |-> IF j = i THEN Tail(@[j]) ELSE @[j]],
                                  LAMBDA q : q # << >>)],
           Head(s.ui.impactQueue[i]))

\* the rest of the handler that awaited doHumanFire; s1 is the state
\* doHumanFire left, s the state its timer fired in
resumed(s1, s, head) ==
  [(IF head.caller = "ai" THEN aiDone(s1) ELSE render(s1))
     EXCEPT !.last = [op |-> "afterSalvo", player |-> head.playerId,
                      ships |-> s.ships, fired |-> s.firedThisRound,
                      from |-> s.ui.phase, phase |-> s1.ui.phase,
                      winner |-> s1.ui.winner, before |-> s.ui.winner]]

\* the timer of wait(650) fires: the rest of doHumanFire, then the rest of
\* the handler that awaited it
fireContinuation(s) ==
  resumed(afterSalvo([s EXCEPT !.ui.fireQueue = Tail(@)],
                     Head(s.ui.fireQueue).playerId),
          s, Head(s.ui.fireQueue))

(***************************************************************************)
(* Spec: the events of the page. An event is one input or one timer; its   *)
(* handler runs to its end or to its next await.                           *)
(***************************************************************************)
\* an input or a timer of the computer player can come in s: a shell is in
\* flight for about 0.6 s, the time doHumanFire waits before it goes on
settled(s) == Len(s.ui.impactQueue) <= MaxInFlight

\* the event can happen in s: its button is on the page and enabled, the
\* overlay does not cover it, its timer is running
enabled(s, ev) ==
  CASE ev.e = "start" -> s.ui.mode = "menu"
    [] ev.e = "click" -> settled(s) /\ s.ui.mode # "menu" /\ ~s.ui.passShown
    [] ev.e = "pass" -> settled(s) /\ s.ui.passShown
    [] ev.e = "select" -> settled(s) /\ ~s.ui.passShown /\ ev.uid \in s.ui.dom.buttons
    [] ev.e \in {"skip", "clear"} ->
         settled(s) /\ ~s.ui.passShown /\ s.ui.dom.kind = "movement" /\ s.ui.dom.canAct
    [] ev.e = "rotate" -> settled(s) /\ s.ui.mode # "menu"
    [] ev.e = "timer" -> s.ui.fireQueue # << >>
    [] ev.e = "impact" -> ev.i \in 1..Len(s.ui.impactQueue)
    [] ev.e = "aiFire" -> settled(s) /\ s.ui.aiTask = "fireWait"
    [] ev.e = "aiMove" -> settled(s) /\ s.ui.aiTask = "moveWait"

\* the state the handler of the event leaves
handle(s, ev) ==
  CASE ev.e = "start" -> startGame(s, ev.mode)
    [] ev.e = "click" -> canvasClick(s, ev.board, ev.cell)
    [] ev.e = "pass" -> passClick(s)
    [] ev.e = "select" -> selectShip(s, ev.uid)
    [] ev.e = "skip" -> skipShip(s, s.ui.dom.me)
    [] ev.e = "clear" -> clearMoves(s)
    [] ev.e = "rotate" -> rotateKey(s)
    [] ev.e = "timer" -> fireContinuation(s)
    [] ev.e = "impact" -> impact(s, ev.i)
    [] ev.e = "aiFire" -> aiFire(s)
    [] ev.e = "aiMove" -> aiMove(s)

\* the state after the events of evs, one after the other; an event that
\* cannot happen is left out
RECURSIVE play(_, _)
play(s, evs) ==
  IF evs = << >> THEN s
  ELSE CHOOSE end \in {play(t, Tail(evs)) :
                         t \in {IF enabled(s, Head(evs)) THEN handle(s, Head(evs))
                                ELSE s}} : TRUE

\* the state the handlers work on
now ==
  [ships |-> ships, players |-> players, firedThisRound |-> firedThisRound,
   shotLog |-> shotLog, round |-> round, ui |-> ui, last |-> last]

\* the handler of the event ev leaves the state s, within the bounds of the
\* model
Becomes(ev, s) ==
  /\ enabled(now, ev)
  /\ s.round <= MaxGameRound
  /\ calls + Len(s.shotLog) - Len(shotLog) <= MaxShells
  /\ ships' = s.ships
  /\ players' = s.players
  /\ firedThisRound' = s.firedThisRound
  /\ shotLog' = s.shotLog
  /\ round' = s.round
  /\ ui' = s.ui
  /\ last' = s.last
  /\ calls' = calls + Len(s.shotLog) - Len(shotLog)

\* the rows the ships of a player are placed in
HomeRows(p) == {homeRow(v) : v \in FleetSet(p)}

\* the cells the viewer clicks: column 0 of the own rows to place, column 0
\* of the enemy's rows to fire and column 1 of the own rows to move
Clicks(board) ==
  LET v == ui.activeViewer
  IN IF ui.phase \in {"placement_p1", "placement_p2"}
       THEN {c \in Coord : c.x = 0 /\ c.y \in HomeRows(v)}
     ELSE IF ui.phase \in {"firing_p1", "firing_p2"}
       THEN {c \in Coord : c.x = 0 /\ c.y \in HomeRows(1 - v)}
     ELSE {c \in Coord : c.x = 1 /\ c.y \in HomeRows(v)}

\* the page when it is loaded
menu ==
  [ships |-> makeShips, players |-> [p \in PlayerId |-> createPlayer(p)],
   firedThisRound |-> [p \in PlayerId |-> {}], shotLog |-> << >>, round |-> 1,
   ui |-> UiMenu, last |-> NoCall]

clickOwn(x, y) == [e |-> "click", board |-> "own", cell |-> [x |-> x, y |-> y]]

clickTarget(x, y) == [e |-> "click", board |-> "target", cell |-> [x |-> x, y |-> y]]

\* a game of two players up to the second firing round: the fleets at home,
\* player 0 sinks the scout of player 1 and hits the stern of its destroyer,
\* player 1 misses, nobody moves
SecondRound ==
  << [e |-> "start", mode |-> "2p"], clickOwn(0, 0), clickOwn(0, 1), [e |-> "pass"],
     clickOwn(0, 2), clickOwn(0, 3), [e |-> "pass"],
     [e |-> "select", uid |-> Uid(0, "destroyer")], clickTarget(0, 2),
     [e |-> "impact", i |-> 1], [e |-> "impact", i |-> 1], [e |-> "timer"],
     [e |-> "pass"], clickTarget(2, 0),
     [e |-> "impact", i |-> 1], [e |-> "impact", i |-> 1], [e |-> "timer"],
     [e |-> "pass"], clickTarget(2, 3), [e |-> "impact", i |-> 1], [e |-> "timer"],
     [e |-> "pass"], [e |-> "skip"],
     [e |-> "select", uid |-> Uid(0, "destroyer")], [e |-> "skip"],
     [e |-> "pass"], [e |-> "skip"] >>

\* the game after these events
midGame == play(menu, SecondRound)

\* a game against the computer up to the movement phase of the first round:
\* both ships of both players have fired
SoloRound ==
  << [e |-> "start", mode |-> "1p"], clickOwn(0, 0), clickOwn(0, 1),
     clickTarget(0, 2), [e |-> "impact", i |-> 1], [e |-> "timer"],
     [e |-> "aiFire"], [e |-> "impact", i |-> 1], [e |-> "impact", i |-> 1],
     [e |-> "timer"],
     clickTarget(0, 3), [e |-> "impact", i |-> 1], [e |-> "impact", i |-> 1],
     [e |-> "timer"],
     [e |-> "aiFire"], [e |-> "impact", i |-> 1], [e |-> "impact", i |-> 1],
     [e |-> "timer"] >>

\* the game after these events
midSolo == play(menu, SoloRound)

\* one firing round of a game against the computer in which both ships of
\* both players fire, the player always at the same cell
SoloFiring ==
  << clickTarget(3, 3), [e |-> "impact", i |-> 1], [e |-> "impact", i |-> 1],
     [e |-> "timer"],
     [e |-> "aiFire"], [e |-> "impact", i |-> 1], [e |-> "impact", i |-> 1],
     [e |-> "timer"],
     clickTarget(3, 3), [e |-> "impact", i |-> 1], [e |-> "impact", i |-> 1],
     [e |-> "timer"],
     [e |-> "aiFire"], [e |-> "impact", i |-> 1], [e |-> "impact", i |-> 1],
     [e |-> "timer"] >>

\* one movement phase of that game: the player skips both ships
SoloSkips ==
  << [e |-> "skip"], [e |-> "select", uid |-> Uid(0, "destroyer")], [e |-> "skip"],
     [e |-> "aiMove"] >>

\* a game against the computer up to the movement phase of the third round:
\* the player's scout lies across the computer's destroyer and no ship of
\* the player ever moves
ThirdRound ==
  << [e |-> "start", mode |-> "1p"], clickOwn(0, 2), [e |-> "rotate"], clickOwn(3, 1) >>
  \o SoloFiring \o SoloSkips \o SoloFiring \o SoloSkips \o SoloFiring

\* that game when its first round, and when its second round, is over
soloAfterOne == play(menu, SubSeq(ThirdRound, 1, 4 + Len(SoloFiring \o SoloSkips)))

soloAfterTwo == play(soloAfterOne, SoloFiring \o SoloSkips)

\* the game after these events
lateSolo == play(soloAfterTwo, SoloFiring)

\* the page when it is loaded, or a game under way
Init ==
  /\ \E s \in {menu, midGame, midSolo, lateSolo} :
       /\ ships = s.ships
       /\ players = s.players
       /\ firedThisRound = s.firedThisRound
       /\ shotLog = s.shotLog
       /\ round = s.round
       /\ ui = s.ui
       /\ last = s.last
  /\ calls = 0

StartGame ==
  \E mode \in {"1p", "2p"} :
    Becomes([e |-> "start", mode |-> mode], startGame(now, mode))

CanvasClick ==
  \E board \in {"own", "target"} :
    \E cell \in Clicks(board) :
      Becomes([e |-> "click", board |-> board, cell |-> cell],
              canvasClick(now, board, cell))

PassClick == Becomes([e |-> "pass"], passClick(now))

SelectShip ==
  \E uid \in ui.dom.buttons :
    Becomes([e |-> "select", uid |-> uid], selectShip(now, uid))

SkipShip == Becomes([e |-> "skip"], skipShip(now, ui.dom.me))

ClearMoves == Becomes([e |-> "clear"], clearMoves(now))

RotateKey ==
  /\ ui.rotations < MaxRotations
  /\ Becomes([e |-> "rotate"], rotateKey(now))

FireContinuation == Becomes([e |-> "timer"], fireContinuation(now))

Impact ==
  \E i \in 1..Len(ui.impactQueue) : Becomes([e |-> "impact", i |-> i], impact(now, i))

AiFire == Becomes([e |-> "aiFire"], aiFire(now))

AiMove == Becomes([e |-> "aiMove"], aiMove(now))

Next ==
  \/ StartGame
  \/ CanvasClick
  \/ PassClick
  \/ SelectShip
  \/ SkipShip
  \/ ClearMoves
  \/ RotateKey
  \/ FireContinuation
  \/ Impact
  \/ AiFire
  \/ AiMove

Spec == Init /\ [][Next]_vars

(***************************************************************************)
(* Vocabulary of the properties, stated without the engine's functions.    *)
(***************************************************************************)
\* the set of cells of a ship of the given type at anchor a, orientation o
Footprint(typeId, a, o) ==
  {[x |-> a.x + (IF o = "H" THEN d ELSE 0), y |-> a.y + (IF o = "V" THEN d ELSE 0)] :
     d \in 0..(SHIP_BY_ID[typeId].size - 1)}

FootprintOf(sh, u) == Footprint(sh[u].typeId, sh[u].anchor, sh[u].orientation)

OnBoard(c) == c.x \in 0..(BOARD_SIZE - 1) /\ c.y \in 0..(BOARD_SIZE - 1)

\* u is in play: placed and not sunk
Live(sh, u) == sh[u].placed /\ ~sh[u].sunk

(***************************************************************************)
(* C5: placeShip rejects exactly the unknown or sunk ship and the          *)
(* footprint that leaves the board or meets another live ship of the same  *)
(* player, and then changes nothing; otherwise it returns true and sets    *)
(* that ship's anchor, orientation and placed flag and nothing else. Enemy *)
(* ships and the ship's own previous cells never reject.                   *)
(***************************************************************************)
PlaceRejected(sh, owner, u, a, o) ==
  \/ u \notin FleetSet(owner)
  \/ sh[u].sunk
  \/ \E c \in Footprint(sh[u].typeId, a, o) :
       \/ ~OnBoard(c)
       \/ \E s \in FleetSet(owner) \ {u} : Live(sh, s) /\ c \in FootprintOf(sh, s)

\* C5
PlaceShipContract ==
  last.op = "placeShip" =>
    IF PlaceRejected(last.before, last.owner, last.shipUid, last.anchor, last.orientation)
      THEN last.ret = FALSE /\ ships = last.before
      ELSE /\ last.ret = TRUE
           /\ ships = [last.before EXCEPT ![last.shipUid] =
                         [@ EXCEPT !.anchor = last.anchor,
                                   !.orientation = last.orientation,
                                   !.placed = TRUE]]

\* a placement accepted on cells an enemy ship holds and the ship itself held
PlaceShipOverEnemyAndSelf ==
  /\ last.op = "placeShip" /\ last.ret
  /\ last.before[last.shipUid].placed
  /\ FootprintOf(ships, last.shipUid) \cap FootprintOf(last.before, last.shipUid) # {}
  /\ last.anchor # last.before[last.shipUid].anchor
  /\ \E e \in FleetSet(1 - last.owner) :
       Live(ships, e) /\ FootprintOf(ships, e) \cap FootprintOf(ships, last.shipUid) # {}
  /\ \E s \in FleetSet(last.owner) \ {last.shipUid} : Live(ships, s)

FireRefused(core, attackerId, u) ==
  \/ u \notin FleetSet(attackerId)
  \/ ~core.ships[u].placed
  \/ core.ships[u].sunk
  \/ u \in core.firedThisRound[attackerId]

Unfired(p) == \E u \in FleetSet(p) : Live(ships, u) /\ u \notin firedThisRound[p]

\* C8
NextFiringPlayerContract ==
  last.op = "nextFiringPlayer" =>
    last.ret = IF Unfired(1 - last.current) THEN 1 - last.current
               ELSE IF Unfired(last.current) THEN last.current
               ELSE NoPlayer

\* the opponent has live ships but all of them have fired: current goes on
NextFiringPlayerStays ==
  /\ last.op = "nextFiringPlayer" /\ last.ret = last.current
  /\ \E u \in FleetSet(1 - last.current) : Live(ships, u)
  /\ Len(shotLog) > 0

(***************************************************************************)
(* Movement vocabulary.                                                    *)
(***************************************************************************)
Between(v, p, q) == (p <= v /\ v <= q) \/ (q <= v /\ v <= p)

Dist(a, b) ==
  (IF a.x >= b.x THEN a.x - b.x ELSE b.x - a.x)
  + (IF a.y >= b.y THEN a.y - b.y ELSE b.y - a.y)

\* the anchors of the walk from a to b, a itself left out: along the row of a
\* to the column of b, then along that column to b
WalkAnchors(a, b) ==
  {c \in Coord :
     \/ c.y = a.y /\ c.x # a.x /\ Between(c.x, a.x, b.x)
     \/ c.x = b.x /\ c.y # a.y /\ Between(c.y, a.y, b.y)}

\* the cells of the live ships other than u
Obstacles(sh, u) == UNION {FootprintOf(sh, s) : s \in {t \in AllUids \ {u} : Live(sh, t)}}

Clear(sh, u, cells) == \A c \in cells : OnBoard(c) /\ c \notin Obstacles(sh, u)

InRange(sh, u, to) == Dist(sh[u].anchor, to) <= SHIP_BY_ID[sh[u].typeId].move

WalkClear(sh, u, to) ==
  \A a \in WalkAnchors(sh[u].anchor, to) :
    Clear(sh, u, Footprint(sh[u].typeId, a, sh[u].orientation))

DestinationClear(sh, u, to, o) == Clear(sh, u, Footprint(sh[u].typeId, to, o))

MoveAllowed(sh, u, to, o) ==
  InRange(sh, u, to) /\ WalkClear(sh, u, to) /\ DestinationClear(sh, u, to, o)

\* the last canMoveShip call was a move order for a live ship of the caller
MoveAsked ==
  /\ last.op = "canMoveShip" /\ ~last.order.skip
  /\ last.order.shipUid \in FleetSet(last.playerId)
  /\ Live(last.before, last.order.shipUid)

(***************************************************************************)
(* C2: for a move order on a live ship, canMoveShip returns true exactly   *)
(* when the destination is in range, every footprint of the x-then-y walk  *)
(* in the current orientation is on the board and free of other live       *)
(* ships, and so is the destination footprint in the requested orientation.*)
(***************************************************************************)
\* C2
CanMoveShipContract ==
  MoveAsked =>
    last.ret = MoveAllowed(last.before, last.order.shipUid, last.order.to,
                           last.order.orientation)

\* an accepted move that walks along both axes and turns the ship
CanMoveTurningAroundCorner ==
  /\ MoveAsked /\ last.ret = TRUE
  /\ last.order.to.x # ships[last.order.shipUid].anchor.x
  /\ last.order.to.y # ships[last.order.shipUid].anchor.y
  /\ last.order.orientation # ships[last.order.shipUid].orientation
  /\ Obstacles(ships, last.order.shipUid) # {}

(***************************************************************************)
(* C3: a move in range with a clear destination is refused when a          *)
(* footprint of the walk meets another live ship; a walk that meets only   *)
(* the ship's own cells is not refused for it.                             *)
(***************************************************************************)
\* C3
PathBlockingRejects ==
  MoveAsked =>
    LET u == last.order.shipUid
        sh == last.before
        own == FootprintOf(sh, u)
        walk == UNION {Footprint(sh[u].typeId, a, sh[u].orientation) :
                         a \in WalkAnchors(sh[u].anchor, last.order.to)}
    IN /\ (/\ InRange(sh, u, last.order.to)
           /\ DestinationClear(sh, u, last.order.to, last.order.orientation)
           /\ walk \cap Obstacles(sh, u) # {}) => last.ret = FALSE
       /\ (/\ InRange(sh, u, last.order.to)
           /\ DestinationClear(sh, u, last.order.to, last.order.orientation)
           /\ \A c \in walk : OnBoard(c) /\ c \notin Obstacles(sh, u)
           /\ walk \cap own # {}) => last.ret = TRUE

\* refused for a ship met on the way only: every cell of the walk is on the
\* board and the destination footprint is clear
BlockedOnTheWayOnly ==
  /\ MoveAsked /\ last.ret = FALSE
  /\ InRange(ships, last.order.shipUid, last.order.to)
  /\ DestinationClear(ships, last.order.shipUid, last.order.to, last.order.orientation)
  /\ \A a \in WalkAnchors(ships[last.order.shipUid].anchor, last.order.to) :
       \A c \in Footprint(ships[last.order.shipUid].typeId, a,
                           ships[last.order.shipUid].orientation) : OnBoard(c)

(***************************************************************************)
(* C1: when the tentative end footprints of two different live ships share *)
(* a cell, resolveMovement lists both as rejected and leaves both where    *)
(* they were, whoever owns them and whichever order comes first. The       *)
(* tentative end footprint of a ship is the footprint its last accepted    *)
(* order asks for, and its present footprint when it has none.             *)
(***************************************************************************)
Accepted(sh, order) ==
  /\ order.shipUid \in AllUids
  /\ Live(sh, order.shipUid)
  /\ order.skip \/ MoveAllowed(sh, order.shipUid, order.to, order.orientation)

Tentative(sh, all, u) ==
  LET idx == {i \in 1..Len(all) : all[i].shipUid = u /\ Accepted(sh, all[i])}
  IN IF idx = {} THEN FootprintOf(sh, u)
     ELSE LET i == CHOOSE i \in idx : \A j \in idx : j <= i
          IN IF all[i].skip THEN FootprintOf(sh, u)
             ELSE Footprint(sh[u].typeId, all[i].to, all[i].orientation)

\* C1
CollidingMovesBothRejected ==
  last.op = "resolveMovement" =>
    LET sh == last.before
        all == last.p1Orders \o last.p2Orders
    IN \A u \in AllUids : \A v \in AllUids \ {u} :
         (/\ Live(sh, u) /\ Live(sh, v)
          /\ Tentative(sh, all, u) \cap Tentative(sh, all, v) # {}) =>
           /\ u \in Range(last.rejected)
           /\ v \in Range(last.rejected)
           /\ ships[u].anchor = sh[u].anchor
           /\ ships[u].orientation = sh[u].orientation

\* a ship of each player, apart before the call, each with an order that
\* canMoveShip accepts, the two destinations sharing a cell
TwoMoversCollide ==
  /\ last.op = "resolveMovement"
  /\ Len(last.p1Orders) = 1 /\ Len(last.p2Orders) = 1
  /\ LET a == last.p1Orders[1]
         b == last.p2Orders[1]
         sh == last.before
     IN /\ a.shipUid \in FleetSet(0) /\ b.shipUid \in FleetSet(1)
        /\ ~a.skip /\ ~b.skip
        /\ Accepted(sh, a) /\ Accepted(sh, b)
        /\ a.to # sh[a.shipUid].anchor /\ b.to # sh[b.shipUid].anchor
        /\ FootprintOf(sh, a.shipUid) \cap FootprintOf(sh, b.shipUid) = {}
        /\ Footprint(a.shipUid[2], a.to, a.orientation)
             \cap Footprint(b.shipUid[2], b.to, b.orientation) # {}
        /\ {a.shipUid, b.shipUid} \subseteq Range(last.rejected)

Unspent(sh, fired, p) == \E u \in FleetSet(p) : Live(sh, u) /\ u \notin fired[p]

TurnsAlternate ==
  (last.op = "salvo" /\ last.previous = last.player) =>
    ~Unspent(last.ships, last.fired, 1 - last.player)

(***************************************************************************)
(* C10: when the rest of a salvo runs in a firing phase, the phase becomes *)
(* movement_p1 exactly when neither player has a placed, unsunk ship that  *)
(* has not fired this round and no winner is found; so movement is never   *)
(* entered while a live ship of either player has not fired.               *)
(***************************************************************************)
\* exactly one side has no unsunk ship
OneSideDown(sh) ==
  (\E u \in FleetSet(0) : ~sh[u].sunk) # (\E u \in FleetSet(1) : ~sh[u].sunk)

FiringEndsWhenSpent ==
  (last.op = "afterSalvo" /\ last.from \in {"firing_p1", "firing_p2"}) =>
    (last.phase = "movement_p1"
       <=> (/\ ~Unspent(last.ships, last.fired, 0)
            /\ ~Unspent(last.ships, last.fired, 1)
            /\ ~OneSideDown(last.ships)))

\* the rest of a salvo has ended a firing phase in which shells were
\* resolved
FiringPhaseEnded ==
  /\ last.op = "afterSalvo"
  /\ last.from \in {"firing_p1", "firing_p2"}
  /\ last.phase = "movement_p1"
  /\ calls > 0

(***************************************************************************)
(* C11: a shell of a salvo is a hit exactly when a placed, unsunk ship of  *)
(* the enemy lies on its cell; a hit adds the index of the struck segment  *)
(* to the hit set of that ship and nothing else, so a shell on a damaged   *)
(* segment leaves the hit set as it was; a ship is sunk exactly when the   *)
(* number of its hit segments is its size.                                 *)
(***************************************************************************)
\* the index of the segment of u that lies on cell c
SegmentOf(sh, u, c) == (c.x - sh[u].anchor.x) + (c.y - sh[u].anchor.y)

\* the hit segments of u when shell i of the salvo ret lands: those it had in
\* sh and those the earlier shells struck
HitsBefore(sh, ret, u, i) ==
  sh[u].hits \cup {SegmentOf(sh, u, ret[j].target) :
                     j \in {n \in 1..(i - 1) : ret[n].target \in FootprintOf(sh, u)}}

Guns(typeId) == SHIP_BY_ID[typeId].guns[1].count

\* the cell d steps from c along the axis of o
Along(c, o, d) ==
  [x |-> c.x + (IF o = "H" THEN d ELSE 0), y |-> c.y + (IF o = "V" THEN d ELSE 0)]

\* cells lists k distinct cells that form a run along o through c
IsRunThrough(cells, c, o, k) ==
  /\ Len(cells) = k
  /\ Cardinality(Range(cells)) = k
  /\ \E a \in (1 - k)..0 : Range(cells) = {Along(c, o, a + d) : d \in 0..(k - 1)}

Afloat(sh, p) == \E u \in FleetSet(p) : ~sh[u].sunk

HasWinnerContract ==
  last.op = "hasWinner" =>
    /\ (Afloat(last.before.ships, 0) /\ ~Afloat(last.before.ships, 1)) => last.ret = 0
    /\ (Afloat(last.before.ships, 1) /\ ~Afloat(last.before.ships, 0)) => last.ret = 1
    /\ (Afloat(last.before.ships, 0) /\ Afloat(last.before.ships, 1))
         => last.ret = NoPlayer

\* hasWinner is called when salvos have sunk the whole fleet of player 1
LastShipOfPlayerTwoSunk ==
  /\ last.op = "hasWinner"
  /\ last.ret = 0
  /\ \A u \in FleetSet(1) : last.before.ships[u].sunk /\ last.before.ships[u].placed
  /\ Len(last.before.shotLog) > 0

(***************************************************************************)
(* C14: once a salvo has left exactly one side without an unsunk ship, the *)
(* phase changes to nothing but game_over, and the rest of every salvo     *)
(* that runs then makes the phase game_over with the side that is afloat   *)
(* as winner: no firing turn and no movement phase is entered.             *)
(***************************************************************************)
WinCheckComesFirst ==
  [][/\ (OneSideDown(ships) /\ ui.phase # "game_over")
          => ui'.phase \in {ui.phase, "game_over"}
     /\ (last'.op = "afterSalvo" /\ last' # last /\ OneSideDown(ships'))
          => /\ ui'.phase = "game_over"
             /\ ui'.winner \in PlayerId
             /\ Afloat(ships', ui'.winner)]_vars

\* the rest of a salvo that sank the last ship of player 2 has run
SalvoEndsTheGame ==
  /\ last.op = "afterSalvo"
  /\ calls > 0
  /\ last.from \in {"firing_p1", "firing_p2"}
  /\ ui.phase = "game_over"
  /\ ui.winner = 0
  /\ \A u \in FleetSet(1) : ships[u].sunk

(***************************************************************************)
(* C15: game_over is terminal: once the phase is game_over no input, no    *)
(* step of the computer player and no pending callback changes the phase   *)
(* or the winner.                                                          *)
(***************************************************************************)
GameOverIsTerminal ==
  [][ui.phase = "game_over" =>
       (ui'.phase = "game_over" /\ ui'.winner = ui.winner)]_vars

\* the rest of a salvo has run when the game was over already
SalvoOutlivesTheGame ==
  /\ last.op = "afterSalvo"
  /\ last.from = "game_over"
  /\ ui.phase = "game_over"
  /\ ui.winner = last.before
  /\ ui.winner \in PlayerId

(***************************************************************************)
(* C16: when resolveMovementPhase completes, the ephemeral hits and the    *)
(* impact markers of both players are empty, nobody has fired, the phase   *)
(* is firing_p1 and the round number is one more than before; the round    *)
(* number is 1 when a game starts and changes at no other step.            *)
(***************************************************************************)
MovementResolved == last'.op = "resolveMovementPhase" /\ last' # last

RoundLifecycle ==
  [][/\ MovementResolved
          => /\ \A p \in PlayerId :
                  /\ players'[p].ephemeralHits = {}
                  /\ players'[p].ephemeralImpactMarkers = << >>
                  /\ firedThisRound'[p] = {}
             /\ ui'.phase = "firing_p1"
             /\ round' = round + 1
     /\ round' # round => MovementResolved
     /\ (ui.phase = "menu" /\ ui'.phase # "menu") => round' = 1]_vars

\* the second round of a game of two players is over: it saw hits, and all
\* the ships afloat fired in it
ThirdRoundBegins ==
  /\ last.op = "resolveMovementPhase"
  /\ last.round = 2
  /\ round = 3
  /\ ui.mode = "2p"
  /\ ui.phase = "firing_p1"
  /\ calls > 0
  /\ \E i \in (Len(shotLog) - calls + 1)..Len(shotLog) : shotLog[i].hit

FullPlans(sh, plans) ==
  \A p \in PlayerId : \A v \in FleetSet(p) :
    (~sh[v].sunk /\ sh[v].placed) => mapHas(plans[p], v)

ResolvesOncePerRound ==
  last.op = "resolveMovementPhase"
    => (last.calls = 1 /\ FullPlans(last.before, last.plans))

\* the orders of a resolveMovement call that name u, in the order given
OrdersOf(u) ==
  SelectSeq(last.p1Orders \o last.p2Orders, LAMBDA o : o.shipUid = u)

\* u is where it was before the call
StaysPut(u) ==
  /\ ships[u].anchor = last.before[u].anchor
  /\ ships[u].orientation = last.before[u].orientation

(***************************************************************************)
(* C19: after resolveMovement a ship that has an order and is not in the   *)
(* rejected list has passed canMoveShip in the state before the call and   *)
(* has the anchor and orientation of its order (of the last one, if there  *)
(* are two; a skip order is an order to stay); a rejected ship and a ship  *)
(* without an order are where they were. No other field of a ship changes. *)
(***************************************************************************)
MovesCommitted ==
  last.op = "resolveMovement" =>
    \A u \in AllUids :
      LET ords == OrdersOf(u)
      IN /\ ships[u] = [last.before[u] EXCEPT !.anchor = ships[u].anchor,
                                              !.orientation = ships[u].orientation]
         /\ (u \in Range(last.rejected) \/ ords = << >>) => StaysPut(u)
         /\ (u \notin Range(last.rejected) /\ ords # << >>) =>
              /\ \A i \in 1..Len(ords) : canMoveShip(last.before, u[1], ords[i])
              /\ IF ords[Len(ords)].skip THEN StaysPut(u)
                 ELSE /\ ships[u].anchor = ords[Len(ords)].to
                      /\ ships[u].orientation = ords[Len(ords)].orientation

\* a ship has moved away, and the order of another ship into the cells it
\* left, good in the state after the call, was rejected
OrderGoodOnlyAfterTheMove ==
  /\ last.op = "resolveMovement"
  /\ \E a, b \in AllUids :
       /\ a # b
       /\ a \notin Range(last.rejected)
       /\ ~StaysPut(a)
       /\ b \in Range(last.rejected)
       /\ StaysPut(b)
       /\ \E i \in 1..Len(OrdersOf(b)) :
            /\ ~OrdersOf(b)[i].skip
            /\ ~canMoveShip(last.before, b[1], OrdersOf(b)[i])
            /\ canMoveShip(ships, b[1], OrdersOf(b)[i])

(***************************************************************************)
(* C20: resolveMovement returns, with in its rejected list, every order    *)
(* that names an unknown, sunk or unplaced ship and every order that does  *)
(* not skip and fails canMoveShip in the state before the call; the ships  *)
(* these orders name are where they were.                                  *)
(***************************************************************************)
BadOrder(o) ==
  \/ o.shipUid \notin AllUids
  \/ last.before[o.shipUid].sunk
  \/ ~last.before[o.shipUid].placed
  \/ (~o.skip /\ ~canMoveShip(last.before, o.shipUid[1], o))

BadOrdersRejected ==
  last.op = "resolveMovement" =>
    \A o \in Range(last.p1Orders \o last.p2Orders) :
      BadOrder(o) =>
        /\ o.shipUid \in Range(last.rejected)
        /\ o.shipUid \in AllUids => ships[o.shipUid] = last.before[o.shipUid]

\* an order for a sunk ship and an order for a ship no fleet holds
WreckAndGhostOrdered ==
  /\ last.op = "resolveMovement"
  /\ \E o \in Range(last.p1Orders) :
       /\ o.shipUid \in AllUids
       /\ last.before[o.shipUid].sunk
       /\ o.shipUid \in Range(last.rejected)
  /\ \E o \in Range(last.p2Orders) :
       /\ o.shipUid = GhostUid
       /\ GhostUid \in Range(last.rejected)

(***************************************************************************)
(* C21: canMoveShip returns true for a skip order exactly when the ship it *)
(* names is in the fleet of the player, placed and not sunk, whatever the  *)
(* destination and the orientation of the order; every order for a sunk    *)
(* ship, skip or not, is refused.                                          *)
(***************************************************************************)
SkipOrderContract ==
  last.op = "canMoveShip" =>
    LET u == last.order.shipUid
    IN /\ last.order.skip =>
            (last.ret <=> /\ u \in FleetSet(last.playerId)
                          /\ last.before[u].placed
                          /\ ~last.before[u].sunk)
       /\ (u \in AllUids /\ last.before[u].sunk) => ~last.ret

\* a skip order that carries a destination off the board was accepted while
\* another ship of the board lies sunk
SkipToNowhereAccepted ==
  /\ last.op = "canMoveShip"
  /\ last.order.skip
  /\ ~inBounds(last.order.to)
  /\ last.ret
  /\ last.order.orientation # last.before[last.order.shipUid].orientation
  /\ \E w \in AllUids : last.before[w].sunk

\* a resolveMovement call has just returned
MovementCalled == last'.op = "resolveMovement" /\ last' # last

(***************************************************************************)
(* C22: resolveMovement changes anchors and orientations of ships and      *)
(* nothing else: the hit segments, the hit points, the placed flag and the *)
(* sunk flag of every ship, the shot log, the fired sets, the miss sets,   *)
(* the ephemeral sets and the destroyed-ship lists are what they were.     *)
(***************************************************************************)
MovementKeepsDamage ==
  [][MovementCalled =>
       /\ \A u \in AllUids :
            ships'[u] = [ships[u] EXCEPT !.anchor = ships'[u].anchor,
                                         !.orientation = ships'[u].orientation]
       /\ UNCHANGED <<players, shotLog, firedThisRound, round>>]_vars

\* a ship with a hit segment, afloat, has moved and turned, in a game with
\* shots in its log
DamagedShipMovedAndTurned ==
  /\ last.op = "resolveMovement"
  /\ shotLog # << >>
  /\ \E u \in AllUids :
       /\ ships[u].hits # {}
       /\ ships[u].hits = last.before[u].hits
       /\ ~ships[u].sunk
       /\ ships[u].anchor # last.before[u].anchor
       /\ ships[u].orientation # last.before[u].orientation

\* the ships with u taken off the board
Without(sh, u) == [sh EXCEPT ![u].placed = FALSE]

\* a sunk ship is out of play: no shot finds it, it may not fire, and the
\* occupancy map and the placement check are what they are without it
SunkOutOfPlay ==
  \A u \in AllUids :
    ships[u].sunk =>
      /\ \A c \in Coord : shipAt(ships, u[1], c) # u
      /\ ~canShipFire(ships, [p \in PlayerId |-> {}], u[1], u)
      /\ \A ignoreUid \in AllUids \cup {NoShip} :
           occupyMap(ships, ignoreUid) = occupyMap(Without(ships, u), ignoreUid)
      /\ \A w \in FleetSet(u[1]) \ {u}, c \in Coord, o \in Orientation :
           canPlaceShip(ships, u[1], w, c, o)
             = canPlaceShip(Without(ships, u), u[1], w, c, o)

\* a step leaves a sunk ship as it is, and logs no shot from it or at it
SunkStays ==
  \A u \in AllUids :
    ships[u].sunk =>
      /\ ships'[u] = ships[u]
      /\ \A i \in (Len(shotLog) + 1)..Len(shotLog') :
           /\ shotLog'[i].shipUid # u
           /\ shotLog'[i].hitShipUid # u

(***************************************************************************)
(* C23: sinking is for good: a ship whose sunk flag is true keeps the flag, *)
(* its anchor, its orientation and its hit segments in every step, fires   *)
(* no shot and takes no hit, and its cells block no placement and no move. *)
(***************************************************************************)
SunkForGood == []SunkOutOfPlay /\ [][SunkStays]_vars

\* the moves of a round are resolved and a ship lies on a cell of a wreck
ShipOverAWreck ==
  /\ last.op = "resolveMovementPhase"
  /\ \E u, w \in AllUids :
       /\ ships[u].sunk
       /\ Live(ships, w)
       /\ ships[w].anchor # last.before[w].anchor
       /\ FootprintOf(ships, u) \cap FootprintOf(ships, w) # {}

(***************************************************************************)
(* C24: from the start of the movement phase of a round to the start of    *)
(* the next firing round the anchor of a ship goes no farther, in          *)
(* Manhattan distance, than the move range of its type.                    *)
(***************************************************************************)
MoveRangeIsARoundBudget ==
  last.op = "resolveMovementPhase" =>
    \A u \in AllUids :
      Dist(last.before[u].anchor, ships[u].anchor) <= SHIP_BY_ID[u[2]].move

(***************************************************************************)
(* SpecOrder: one resolveMovement call in which one player orders both     *)
(* ships and the other at most its scout, on a board with room to move.    *)
(***************************************************************************)
OrdersFor(u) == {o \in Orders : o.shipUid = u}

\* the plans of a player: plannedMoves[p].values(), in either order of insertion
FullPlansOf(p) ==
  {<<a, b>> : a \in OrdersFor(Uid(p, "scout")), b \in OrdersFor(Uid(p, "destroyer"))}
  \cup {<<b, a>> : a \in OrdersFor(Uid(p, "scout")), b \in OrdersFor(Uid(p, "destroyer"))}

ShortPlansOf(p) ==
  {<< >>} \cup {<<o>> : o \in OrdersFor(Uid(p, "scout"))}

\* placeShip, for the board it leaves
placedAt(sh, uid, c, o) == placeShip(sh, uid[1], uid, c, o).ships

\* a board on which the ships of either fleet have room to meet:
\*   row 0: scout 0 from column 0, row 2: destroyer 0 from column 0,
\*   row 3: scout 1 from column 0, column 3: destroyer 1 from row 0 down
orderBoards ==
  {placedAt(placedAt(placedAt(placedAt(makeShips,
       Uid(0, "scout"), [x |-> 0, y |-> 0], "H"),
       Uid(0, "destroyer"), [x |-> 0, y |-> 2], "H"),
       Uid(1, "scout"), [x |-> 0, y |-> 3], "H"),
       Uid(1, "destroyer"), [x |-> 3, y |-> 0], "V")}

InitOrder ==
  /\ ships \in orderBoards
  /\ players = [p \in PlayerId |-> createPlayer(p)]
  /\ firedThisRound = [p \in PlayerId |-> {}]
  /\ shotLog = << >>
  /\ round = 1
  /\ last = NoCall
  /\ calls = 0
  /\ ui = UiMenu

ResolveOrderedCall ==
  /\ calls < MaxCalls
  /\ \E full \in PlayerId :
       \E p1Orders \in IF full = 0 THEN FullPlansOf(0) ELSE ShortPlansOf(0),
          p2Orders \in IF full = 1 THEN FullPlansOf(1) ELSE ShortPlansOf(1) :
         \E r \in {resolveMovement(ships, p1Orders, p2Orders)} :
           /\ ships' = r.ships
           /\ last' = [op |-> "resolveMovement", p1Orders |-> p1Orders,
                       p2Orders |-> p2Orders, applied |-> r.applied,
                       rejected |-> r.rejected, before |-> ships]
  /\ calls' = calls + 1
  /\ UNCHANGED <<players, firedThisRound, shotLog, round, ui>>

NextOrder == ResolveOrderedCall

SpecOrder == InitOrder /\ [][NextOrder]_vars

\* the same orders, the other way round
Reversed(list) == [i \in 1..Len(list) |-> list[Len(list) + 1 - i]]

\* what a resolveMovement call leaves: where the ships are and the two sets
Outcome(sh, applied, rejected) ==
  [at |-> [u \in AllUids |-> <<sh[u].anchor, sh[u].orientation>>],
   applied |-> Range(applied), rejected |-> Range(rejected)]

\* C25: with at most one order per ship, resolveMovement leaves the same
\* anchors and orientations and returns the same applied and rejected sets
\* whatever the order of the orders inside the two lists.
NoPriorityAmongOrders ==
  last.op = "resolveMovement" =>
    \A q1 \in {last.p1Orders, Reversed(last.p1Orders)},
       q2 \in {last.p2Orders, Reversed(last.p2Orders)} :
      \A r \in {resolveMovement(last.before, q1, q2)} :
        Outcome(r.ships, r.applied, r.rejected) = Outcome(ships, last.applied, last.rejected)

\* both ships of a player were ordered onto the same cell and both were rejected
TwoShipsCollideBothRejected ==
  /\ last.op = "resolveMovement"
  /\ Len(last.p1Orders) = 2
  /\ ~last.p1Orders[1].skip /\ ~last.p1Orders[2].skip
  /\ Range(last.applied) = {last.p1Orders[1].shipUid, last.p1Orders[2].shipUid}
  /\ Range(last.rejected) = Range(last.applied)

(***************************************************************************)
(* C26: movement planning shows nothing of the other player's plan: in a   *)
(* movement phase the answer the click handler gets for any order of the   *)
(* planning player is the one it would get with the other player's buffer  *)
(* empty, and a step that changes the buffers without resolving them       *)
(* leaves every ship where it was.                                         *)
(***************************************************************************)
MovePhases == {"movement_p1", "movement_p2"}

\* the state with nothing buffered for player p
Unplanned(p) == [now EXCEPT !.ui.plannedMoves[p] = << >>]

PlanningSeesNoPlan ==
  ui.phase \in MovePhases =>
    \A v \in {currentPlayerForPhase(ui.phase)} :
      \A order \in {o \in Orders : o.shipUid \in FleetSet(v)} :
        orderValid(now, v, order) = orderValid(Unplanned(1 - v), v, order)

BufferingMovesNoShip ==
  (ui.phase \in MovePhases /\ ui'.plannedMoves # ui.plannedMoves /\ ~MovementResolved)
    => ships' = ships

PlanningIsBlind == []PlanningSeesNoPlan /\ [][BufferingMovesNoShip]_vars

\* where a ship would lie under an order
EndCellsOf(order) == Footprint(order.shipUid[2], order.to, order.orientation)

\* player 2 is planning, and an order that is legal for it ends on a cell that
\* a move buffered by player 1 ends on
LegalOrderIntoABufferedMove ==
  /\ ui.phase = "movement_p2" /\ ui.mode = "2p"
  /\ \E i \in 1..Len(ui.plannedMoves[0]) :
       /\ ~ui.plannedMoves[0][i].skip
       /\ ui.plannedMoves[0][i].to # ships[ui.plannedMoves[0][i].shipUid].anchor
       /\ \E order \in {o \in Orders : o.shipUid \in FleetSet(1) /\ ~o.skip} :
            /\ orderValid(now, 1, order)
            /\ EndCellsOf(order) \cap EndCellsOf(ui.plannedMoves[0][i]) # {}

(***************************************************************************)
(* C27: the phase leaves placement_p1 only with the whole fleet of player  *)
(* 1 placed, for placement_p2 in a game of two and for firing_p1, with the *)
(* computer's fleet placed, in a game against the computer; placement_p2   *)
(* is never the phase of a game against the computer; and in a firing      *)
(* phase no ship of either player is unplaced.                             *)
(***************************************************************************)
FiringPhases == {"firing_p1", "firing_p2"}

LeavesFirstPlacement ==
  (ui.phase = "placement_p1" /\ ui'.phase # "placement_p1") =>
    /\ allShipsPlaced(ships', 0)
    /\ ui'.mode = ui.mode
    /\ IF ui.mode = "2p" THEN ui'.phase = "placement_p2" /\ ~allShipsPlaced(ships', 1)
       ELSE ui'.phase = "firing_p1" /\ allShipsPlaced(ships', 1)
                                    /\ ~allShipsPlaced(ships, 1)

EntersFiring ==
  (ui.phase \notin FiringPhases /\ ui'.phase \in FiringPhases) =>
    \A u \in AllUids : ships'[u].placed

PlanComplete(sh, plan, p) ==
  \A u \in FleetSet(p) : (sh[u].placed /\ ~sh[u].sunk) => mapHas(plan, u)

FirstPlanComplete ==
  (ui.phase = "movement_p1" /\ ui'.phase = "movement_p2") =>
    PlanComplete(ships', ui'.plannedMoves[0], 0)

ResolvedWhenPlanned ==
  MovementResolved => PlanComplete(last'.before, last'.plans[1], 1)

OrdersWereLegal ==
  \A p \in PlayerId :
    \A i \in 1..Len(ui'.plannedMoves[p]) :
      LET o == ui'.plannedMoves[p][i]
      IN o \notin Range(ui.plannedMoves[p]) =>
           (o.skip \/ canMoveShip(ships', p, o))

MaxDraws == 2
MaxExclusive == 5

\* new SeededRng(seed): the seeds of main.ts, the least and the greatest seed
Seeds == {<<0, 1337>>, <<1, 24674>>, <<0, 0>>, <<Half - 1, Half - 1>>}

\* a game with no ship placed, and the games in which a scout has been sunk
rngCores ==
  {freshCore(makeShips)}
  \cup {c \in wreckCores : \E p \in PlayerId : c.ships[Uid(p, "scout")].sunk}

PickLists == {SubSeq(AllShipSeq, 1, k) : k \in 1..Len(AllShipSeq)}

InitRng ==
  /\ \E core \in rngCores, seed \in Seeds :
       /\ ships = core.ships
       /\ players = core.players
       /\ firedThisRound = core.firedThisRound
       /\ shotLog = core.shotLog
       /\ ui = [UiMenu EXCEPT !.rng = seed]
       /\ last = [op |-> "seeded", twin |-> [rng |-> seed, ships |-> core.ships]]
  /\ round = 1
  /\ calls = 0

\* a call that returned v and left the seed s1 and the ships sh1, the same call
\* on the twin having returned tv and left ts1 and tsh1
RngCalled(op, arg, v, s1, sh1, tv, ts1, tsh1) ==
  /\ calls < MaxDraws
  /\ calls' = calls + 1
  /\ ui' = [ui EXCEPT !.rng = s1]
  /\ ships' = sh1
  /\ last' = [op |-> op, arg |-> arg, v |-> v, before |-> ships, seed |-> ui.rng,
              twin |-> [rng |-> ts1, ships |-> tsh1, v |-> tv]]
  /\ UNCHANGED <<players, firedThisRound, shotLog, round>>

RngNextCall ==
  RngCalled("next", 0, rngNext(ui.rng), rngNext(ui.rng), ships,
            rngNext(last.twin.rng), rngNext(last.twin.rng), last.twin.ships)

RngIntCall ==
  \E n \in 1..MaxExclusive :
    \E r \in {rngInt(ui.rng, n)}, t \in {rngInt(last.twin.rng, n)} :
      RngCalled("int", n, r.v, r.seed, ships, t.v, t.seed, last.twin.ships)

RngPickCall ==
  \E items \in PickLists :
    \E r \in {rngPick(ui.rng, items)}, t \in {rngPick(last.twin.rng, items)} :
      RngCalled("pick", items, r.v, r.seed, ships, t.v, t.seed, last.twin.ships)

RandomFleetCall ==
  \E p \in PlayerId :
    \E r \in {randomFleetPlacement(ships, p, ui.rng)},
       t \in {randomFleetPlacement(last.twin.ships, p, last.twin.rng)} :
      RngCalled("randomFleetPlacement", p, r.tried, r.seed, r.ships,
                t.tried, t.seed, t.ships)

RandomShotCall ==
  \E p \in PlayerId :
    \E r \in {randomLegalShot(ships, players, firedThisRound, p, ui.rng)},
       t \in {randomLegalShot(last.twin.ships, players, firedThisRound, p, last.twin.rng)} :
      RngCalled("randomLegalShot", p, [shipUid |-> r.shipUid, target |-> r.target],
                r.seed, ships,
                [shipUid |-> t.shipUid, target |-> t.target], t.seed, last.twin.ships)

RandomPlanCall ==
  \E p \in PlayerId :
    \E r \in {randomMovePlan(ships, p, ui.rng)},
       t \in {randomMovePlan(last.twin.ships, p, last.twin.rng)} :
      RngCalled("randomMovePlan", p, r.orders, r.seed, ships,
                t.orders, t.seed, last.twin.ships)

NextRng ==
  \/ RngNextCall
  \/ RngIntCall
  \/ RngPickCall
  \/ RandomFleetCall
  \/ RandomShotCall
  \/ RandomPlanCall

SpecRng == InitRng /\ [][NextRng]_vars

LiveSeq(sh, p) == SelectSeq(FleetSeq(p), LAMBDA u : Live(sh, u))

PlanIsLegal ==
  last.op = "randomMovePlan" =>
    /\ ships = last.before
    /\ Len(last.v) = Len(LiveSeq(last.before, last.arg))
    /\ \A i \in 1..Len(last.v) :
         /\ last.v[i].shipUid = LiveSeq(last.before, last.arg)[i]
         /\ canMoveShip(last.before, last.arg, last.v[i])

ShotIsLegal ==
  last.op = "randomLegalShot" =>
    /\ ships = last.before
    /\ IF \E u \in FleetSet(last.arg) : canShipFire(last.before, firedThisRound, last.arg, u)
         THEN /\ canShipFire(last.before, firedThisRound, last.arg, last.v.shipUid)
              /\ OnBoard(last.v.target)
         ELSE last.v.shipUid = NoShip

AiKeepsToTheRules == PlanIsLegal /\ ShotIsLegal

\* a plan drawn for a fleet placed at random: it moves one ship and some
\* candidate of that ship was not legal
PlanMovesAShip ==
  /\ last.op = "randomMovePlan"
  /\ \E i \in 1..Len(last.v) :
       /\ ~last.v[i].skip
       /\ \E c \in Range(candidates(last.before[last.v[i].shipUid], last.v[i].shipUid)) :
            ~canMoveShip(last.before, last.arg, c)

(***************************************************************************)
(* C32: the applied and the rejected list that resolveMovement returns     *)
(* have no uid in common, and a uid is in applied only if an order of the  *)
(* ship took effect: it was a skip, or the ship has the anchor and the     *)
(* orientation the order asked for.                                        *)
(***************************************************************************)
AppliedAndRejectedDisjoint ==
  last.op = "resolveMovement" =>
    /\ Range(last.applied) \cap Range(last.rejected) = {}
    /\ \A u \in Range(last.applied) :
         \E i \in 1..Len(OrdersOf(u)) :
           \/ OrdersOf(u)[i].skip
           \/ /\ ships[u].anchor = OrdersOf(u)[i].to
              /\ ships[u].orientation = OrdersOf(u)[i].orientation

(***************************************************************************)
(* C33: resolveMovement moves a ship only on an order of the list of the   *)
(* player who owns it: a ship that no order of its owner's list names is,  *)
(* after the call, where it was, whatever the other player's list holds.   *)
(***************************************************************************)
ListOf(p) == IF p = 0 THEN last.p1Orders ELSE last.p2Orders

OrdersMoveOwnShipsOnly ==
  last.op = "resolveMovement" =>
    \A u \in AllUids :
      (\A i \in 1..Len(ListOf(u[1])) : ListOf(u[1])[i].shipUid # u) => StaysPut(u)

(***************************************************************************)
(* C34: if no two placed, unsunk ships share a cell before a               *)
(* resolveMovement call, none do after it, also when a rejected ship stays *)
(* where it was while another ship moves.                                  *)
(***************************************************************************)
Apart(sh) ==
  \A u \in AllUids : \A w \in AllUids \ {u} :
    (Live(sh, u) /\ Live(sh, w)) => FootprintOf(sh, u) \cap FootprintOf(sh, w) = {}

MovementMakesNoOverlap ==
  (last.op = "resolveMovement" /\ Apart(last.before)) => Apart(ships)

\* a ship has moved, and another, rejected, has stayed though it was ordered
\* onto a cell the first one has now
MovedWhereTheRejectedWouldGo ==
  /\ last.op = "resolveMovement"
  /\ Apart(last.before)
  /\ \E a, b \in AllUids :
       /\ a # b
       /\ Live(ships, a) /\ Live(ships, b)
       /\ a \notin Range(last.rejected) /\ ~StaysPut(a)
       /\ b \in Range(last.rejected) /\ StaysPut(b)
       /\ \E i \in 1..Len(OrdersOf(b)) :
            /\ ~OrdersOf(b)[i].skip
            /\ EndCellsOf(OrdersOf(b)[i]) \cap FootprintOf(ships, a) # {}

(***************************************************************************)
(* C35: from the first firing phase of a game on, no placed, unsunk ship   *)
(* of one player shares a cell with a placed, unsunk ship of the other.    *)
(***************************************************************************)
FleetsNeverShareACell ==
  ui.phase \in FiringPhases \cup MovePhases \cup {"game_over"} =>
    \A u \in AllUids : \A w \in AllUids :
      (u[1] # w[1] /\ Live(ships, u) /\ Live(ships, w)) =>
        FootprintOf(ships, u) \cap FootprintOf(ships, w) = {}

(***************************************************************************)
(* C36: whenever the phase is firing_p1 (firing_p2) and no salvo is        *)
(* waiting for the rest of doHumanFire, player 0 (player 1) has a placed,  *)
(* unsunk ship that has not fired this round. FiringPlayerCanAct states it *)
(* for those states, FiringPlayerCanAlwaysAct for every state.             *)
(***************************************************************************)
PhasePlayer == IF ui.phase = "firing_p1" THEN 0 ELSE 1

TimerPending ==
  ui.aiTask # "idle" \/ ui.fireQueue # << >> \/ ui.impactQueue # << >>

AiTurnIsScheduled ==
  (ui.mode = "1p" /\ ui.phase = "firing_p2") => TimerPending

(***************************************************************************)
(* C38: the winner is recorded exactly when the phase is game_over, and in *)
(* game_over the recorded winner has a ship that is not sunk while every   *)
(* ship of the other player is sunk.                                       *)
(***************************************************************************)
WinnerIffGameOver ==
  /\ (ui.winner # NoPlayer) <=> (ui.phase = "game_over")
  /\ ui.phase = "game_over" =>
       /\ ui.winner \in PlayerId
       /\ \E u \in FleetSet(ui.winner) : ~ships[u].sunk
       /\ \A u \in FleetSet(1 - ui.winner) : ships[u].sunk

\* the first player has won with a fleet that was hit itself
DamagedFleetWins ==
  /\ ui.phase = "game_over"
  /\ ui.winner = 0
  /\ \E u \in FleetSet(0) : ships[u].hits # {}
  /\ \A u \in FleetSet(1) : ships[u].sunk

(***************************************************************************)
(* C39: in every reachable state some ship is not sunk, and a step that    *)
(* lowers the hp of a ship or sinks it adds a shot to the log whose        *)
(* defender owns that ship: a salvo damages the defender's ships only, so  *)
(* both fleets are never wiped out together.                               *)
(***************************************************************************)
Damaged(u) == ships'[u].hp < ships[u].hp \/ (ships'[u].sunk /\ ~ships[u].sunk)

NoDoubleWipeOut ==
  /\ [](\E u \in AllUids : ~ships[u].sunk)
  /\ [][\A p \in PlayerId : \A u \in FleetSet(p) :
          Damaged(u) =>
            /\ Len(shotLog') > Len(shotLog)
            /\ \E i \in (Len(shotLog) + 1)..Len(shotLog') :
                 shotLog'[i].defender = p /\ shotLog'[i].hitShipUid = u
            /\ \A i \in (Len(shotLog) + 1)..Len(shotLog') :
                 shotLog'[i].hitShipUid \notin FleetSet(shotLog'[i].attacker)]_vars

\* both players have sunk a ship of the other, and one fleet is gone
OneFleetGoneOtherHurt ==
  /\ \A u \in FleetSet(1) : ships[u].sunk
  /\ \E u \in FleetSet(0) : ships[u].sunk
  /\ \E u \in FleetSet(0) : ~ships[u].sunk
  /\ Len(shotLog) > 0
  /\ shotLog[Len(shotLog)].defender = 1

(***************************************************************************)
(* server: RoomStore, the seats of one room. In SpecRoom ui holds the room *)
(* and calls counts the calls made on it, which is also the clock touch    *)
(* reads.                                                                  *)
(***************************************************************************)
MaxSessions == 3
MaxNames == 2
MaxRoomCalls == 5

SessionIds == 1..MaxSessions

Names == 1..MaxNames

Role == {"player", "spectator"}

\* a seat nobody holds: null, whose sessionId equals no session's
NoSeat == [sessionId |-> 0, name |-> 0]

Seat(ident) == [sessionId |-> ident.sessionId, name |-> ident.name]

\* RoomStore.create, without the code, the title and the chat
createRoom(time) ==
  [updatedAt |-> time, p1 |-> NoSeat, p2 |-> NoSeat, spectators |-> << >>]

touch(room, time) == [room EXCEPT !.updatedAt = time]

\* findIndex: the first index the session sits at among the spectators, 0 if none
specIdxOf(room, sessionId) ==
  LET at(i) == room.spectators[i].sessionId = sessionId
  IN IF \E i \in 1..Len(room.spectators) : at(i)
       THEN CHOOSE i \in 1..Len(room.spectators) : at(i) /\ \A j \in 1..(i - 1) : ~at(j)
       ELSE 0

\* a join that does not look for the seat the session holds already
roomJoinAnew(room, ident, role, time) ==
  IF role = "player" /\ room.p1 = NoSeat
    THEN [room |-> touch([room EXCEPT !.p1 = Seat(ident)], time),
          role |-> "player", seat |-> "p1"]
  ELSE IF role = "player" /\ room.p2 = NoSeat
    THEN [room |-> touch([room EXCEPT !.p2 = Seat(ident)], time),
          role |-> "player", seat |-> "p2"]
  ELSE [room |-> touch([room EXCEPT !.spectators = Append(@, Seat(ident))], time),
        role |-> "spectator", seat |-> "spectator"]

\* RoomStore.join: the room after the call and the role and seat returned
roomJoin(room, ident, role, time) ==
  IF room.p1 # NoSeat /\ room.p1.sessionId = ident.sessionId
    THEN [room |-> touch([room EXCEPT !.p1.name = ident.name], time),
          role |-> "player", seat |-> "p1"]
  ELSE IF room.p2 # NoSeat /\ room.p2.sessionId = ident.sessionId
    THEN [room |-> touch([room EXCEPT !.p2.name = ident.name], time),
          role |-> "player", seat |-> "p2"]
  ELSE IF specIdxOf(room, ident.sessionId) > 0
    THEN [room |-> touch([room EXCEPT
                            !.spectators[specIdxOf(room, ident.sessionId)].name =
                               ident.name], time),
          role |-> "spectator", seat |-> "spectator"]
  ELSE IF role = "player" /\ room.p1 = NoSeat
    THEN [room |-> touch([room EXCEPT !.p1 = Seat(ident)], time),
          role |-> "player", seat |-> "p1"]
  ELSE IF role = "player" /\ room.p2 = NoSeat
    THEN [room |-> touch([room EXCEPT !.p2 = Seat(ident)], time),
          role |-> "player", seat |-> "p2"]
  ELSE [room |-> touch([room EXCEPT !.spectators = Append(@, Seat(ident))], time),
        role |-> "spectator", seat |-> "spectator"]

\* RoomStore.leave
roomLeave(room, sessionId, time) ==
  LET r1 == IF room.p1 # NoSeat /\ room.p1.sessionId = sessionId
              THEN [room EXCEPT !.p1 = NoSeat] ELSE room
      r2 == IF r1.p2 # NoSeat /\ r1.p2.sessionId = sessionId
              THEN [r1 EXCEPT !.p2 = NoSeat] ELSE r1
      keep(s) == s.sessionId # sessionId
  IN touch([r2 EXCEPT !.spectators = SelectSeq(@, keep)], time)

InitRoom ==
  /\ ui = createRoom(0)
  /\ last = [op |-> "create"]
  /\ calls = 0
  /\ ships = menu.ships
  /\ players = menu.players
  /\ firedThisRound = menu.firedThisRound
  /\ shotLog = menu.shotLog
  /\ round = menu.round

RoomCalled(room, l) ==
  /\ calls < MaxRoomCalls
  /\ calls' = calls + 1
  /\ ui' = room
  /\ last' = l
  /\ UNCHANGED <<ships, players, firedThisRound, shotLog, round>>

JoinCall ==
  \E sessionId \in SessionIds, name \in Names, role \in Role :
    \E r \in {roomJoin(ui, [sessionId |-> sessionId, name |-> name], role, calls + 1)} :
      RoomCalled(r.room, [op |-> "join", before |-> ui, sessionId |-> sessionId,
                          name |-> name, want |-> role, role |-> r.role,
                          seat |-> r.seat])

LeaveCall ==
  \E sessionId \in SessionIds :
    \E r \in {roomLeave(ui, sessionId, calls + 1)} :
      RoomCalled(r, [op |-> "leave", before |-> ui, sessionId |-> sessionId])

NextRoom ==
  \/ JoinCall
  \/ LeaveCall

SpecRoom == InitRoom /\ [][NextRoom]_vars

\* the seats a session holds in a room: p1, p2, and one for each place it has
\* in the list of spectators
SeatsOf(room, sessionId) ==
  (IF room.p1.sessionId = sessionId THEN {"p1"} ELSE {})
    \cup (IF room.p2.sessionId = sessionId THEN {"p2"} ELSE {})
    \cup {<<"spectator", i>> : i \in {j \in 1..Len(room.spectators) :
                                        room.spectators[j].sessionId = sessionId}}

\* the sessions seated, seat by seat
WhoSits(room) ==
  [p1 |-> room.p1.sessionId, p2 |-> room.p2.sessionId,
   spectators |-> [i \in 1..Len(room.spectators) |-> room.spectators[i].sessionId]]

(***************************************************************************)
(* C40: after any sequence of join and leave calls on a room every session *)
(* holds at most one seat among p1, p2 and the spectators, and p1 and p2   *)
(* are not the same session; a join as player by a session without a seat  *)
(* takes p1 if it is free, else p2 if it is free, else a place among the   *)
(* spectators; no join takes a seat from the player who holds it; a join   *)
(* by a session that has a seat returns that seat and moves nobody.        *)
(***************************************************************************)
SeatingHolds ==
  /\ \A s \in SessionIds : Cardinality(SeatsOf(ui, s)) <= 1
  /\ ui.p1 # NoSeat => ui.p1.sessionId # ui.p2.sessionId
  /\ last.op = "join" =>
       LET b == last.before
           s == last.sessionId
           held == SeatsOf(b, s)
           sits(seat) == IF seat = "spectator"
                           THEN \E i \in 1..Len(ui.spectators) :
                                  SeatsOf(ui, s) = {<<"spectator", i>>}
                           ELSE SeatsOf(ui, s) = {seat}
       IN /\ sits(last.seat)
          /\ last.role = (IF last.seat = "spectator" THEN "spectator" ELSE "player")
          /\ b.p1 # NoSeat => ui.p1.sessionId = b.p1.sessionId
          /\ b.p2 # NoSeat => ui.p2.sessionId = b.p2.sessionId
          /\ \A i \in 1..Len(b.spectators) :
               /\ i <= Len(ui.spectators)
               /\ ui.spectators[i].sessionId = b.spectators[i].sessionId
          /\ held # {} => /\ WhoSits(ui) = WhoSits(b)
                          /\ SeatsOf(ui, s) = held
          /\ (held = {} /\ last.want = "player") =>
               last.seat = (IF b.p1 = NoSeat THEN "p1"
                            ELSE IF b.p2 = NoSeat THEN "p2" ELSE "spectator")
          /\ (held = {} /\ last.want = "spectator") =>
               /\ last.seat = "spectator"
               /\ ui.p1 = b.p1 /\ ui.p2 = b.p2

\* the session seated at p2 joined again as player while p1 was free and a
\* spectator was watching
SecondPlayerJoinsAgain ==
  /\ last.op = "join"
  /\ last.want = "player"
  /\ last.before.p1 = NoSeat
  /\ last.before.p2.sessionId = last.sessionId
  /\ last.before.spectators # << >>
  /\ last.seat = "p2"
  /\ ui.p2.name # last.before.p2.name

====
